---- MODULE Spec2Model ----
(***************************************************************************)
(* State-machine model of the player core of libbluray                     *)
(* (src/libbluray/bluray.c): the main-path stream cursor (BD_STREAM), the  *)
(* unit validation / skip logic, the combined UO mask, the event queue and *)
(* the navigation-mode read loop (bd_read_ext) that drives the HDMV VM and *)
(* the graphics controller.                                                *)
(*                                                                         *)
(* Collaborators whose code is not part of bluray.c (file I/O, HDMV VM,    *)
(* graphics controller, BD-J bridge) are modelled by their interface: what *)
(* they return is drawn from small sets by the calling action.             *)
(***************************************************************************)
EXTENDS Integers, Sequences, FiniteSets, TLC

----------------------------------------------------------------------------
(* Program constants *)

\* const size_t len = 6144: one aligned unit
UnitLen == 6144
\* one transport packet with its 4-byte extra header
PktLen == 192
\* TS sync byte 0x47
SyncByte == 71
\* 0xc0: the Copy_permission_indicator bits of buf[0]
CpiMask == 192
\* encrypted_block_cnt > 10 ends the stream as encrypted
EncLimit == 10
\* uint8_t encrypted_block_cnt
U8 == 256
\* loops++ > 100: the HDMV live lock guard of _read_ext
LoopLimit == 100
\* BD_ERROR_HDMV, BD_ERROR_AACS: parameters of the error events
BD_ERROR_HDMV == 1
BD_ERROR_AACS == 3
\* hdmv_num_invalid_pl < 10: missing playlists the VM may ask for in a row
InvalidPlLimit == 10
\* BLURAY_TITLE_FIRST_PLAY
BLURAY_TITLE_FIRST_PLAY == 65535
\* UO_MASK_TITLE_SEARCH_INDEX: parameter of BDJ_EVENT_UO_MASKED
UO_MASK_TITLE_SEARCH_INDEX == 1
\* BLURAY_TITLE_TOP_MENU
BLURAY_TITLE_TOP_MENU == 0
\* UO_MASK_MENU_CALL_INDEX: parameter of BDJ_EVENT_UO_MASKED
UO_MASK_MENU_CALL_INDEX == 0
\* 512 * 1024 * 1024
PRELOAD_SIZE_LIMIT == 536870912

(* Bounds of the model *)

\* size of the largest clip file, in aligned units
MaxUnits == 11
\* capacity of the event queue
MaxQueue == 2
\* reads stop once the encrypted-unit counter is this far over EncLimit
MaxOver == 2
\* missing playlists the VM asks for in a row
MaxInvalidPl == 1
\* units one preload reads
MaxPreloadReads == 3

----------------------------------------------------------------------------
(* Values *)

NoClip == 0

\* NAV_CLIP entries of the open title: start_pkt is the first packet of the
\* clip, size the size of its file in bytes (the first file is truncated
\* in the middle of a unit).
\* title_pkt is the title packet of its first packet, end_pkt its last
\* packet, ep the packets of its entry points.
ClipTable ==
  << [ref |-> 0, start_pkt |-> 37, size |-> 3 * UnitLen + 100,
      title_pkt |-> 0, end_pkt |-> 96, ep |-> {37, 60, 90}],
     [ref |-> 1, start_pkt |-> 0,  size |-> MaxUnits * UnitLen,
      title_pkt |-> 59, end_pkt |-> MaxUnits * 32,
      ep |-> {0, 40, 200}] >>

ClipIds == 1..Len(ClipTable)

\* BD_UO_MASK: the set of masked user operations.  "other" stands for the
\* bits that _compressed_mask does not report.
UoBits == {"menu_call", "title_search", "other"}
EMPTY_UO_MASK == {}

\* gc_status: the set of GC_STATUS_* flags that are set.
GC_STATUS_NONE == {}
GcFlags == {"GC_STATUS_MENU_OPEN", "GC_STATUS_POPUP", "GC_STATUS_ANIMATE"}

\* BD_TITLE_TYPE
TitleTypes == {"title_undef", "title_hdmv", "title_bdj"}

Ev(event, param) == [event |-> event, param |-> param]

\* An aligned unit as far as _validate_unit reads it: buf[0] and the sync
\* bytes buf[4], buf[4+192], buf[4+2*192], buf[4+3*192].
Unit(b0, s1, s2, s3, s4) == [b0 |-> b0, sync |-> <<s1, s2, s3, s4>>]

Buf0Values == {0, 63, 64, CpiMask}
SyncValues == {SyncByte, 0}

AllUnits ==
  { Unit(b0, s1, s2, s3, s4) :
      b0 \in Buf0Values, s1 \in SyncValues, s2 \in SyncValues,
      s3 \in SyncValues, s4 \in SyncValues }

\* buf[0] & 0xc0
Cpi(buf) == ((buf.b0 \div 64) % 4) * 64

----------------------------------------------------------------------------
(* The BLURAY object *)

VARIABLES
  bd,      \* struct bluray (with st0), the event queue and the call log
  ret,     \* the last operation: its name, return value and inputs
  hist     \* history of the units read since the clip was opened

vars == <<bd, ret, hist>>

InitStream ==
  [ clip |-> NoClip, fp |-> FALSE,
    clip_size |-> 0, clip_block_pos |-> 0, clip_pos |-> 0,
    int_buf_off |-> 0, uo_mask |-> EMPTY_UO_MASK,
    eof_hit |-> 0, encrypted_block_cnt |-> 0, seek_flag |-> 0,
    m2ts_filter |-> FALSE ]

InitBd ==
  [ st0 |-> InitStream,
    event_queue |-> [alloc |-> FALSE, ev |-> <<>>],
    uo_mask |-> EMPTY_UO_MASK,
    title_uo_mask |-> EMPTY_UO_MASK,
    gc_uo_mask |-> EMPTY_UO_MASK,
    title |-> FALSE,
    title_type |-> "title_undef",
    hdmv_vm |-> FALSE, hdmv_suspended |-> 0, hdmv_num_invalid_pl |-> 0,
    graphics_controller |-> FALSE, gc_status |-> GC_STATUS_NONE,
    end_of_playlist |-> 0, bdj_wait_start |-> 0,
    s_pos |-> 0,
    queued |-> <<>>, bdj_sent |-> <<>> ]

\* An operation starts with empty logs of its _queue_event and _bdj_event
\* calls.
Enter(b) == [b EXCEPT !.queued = <<>>, !.bdj_sent = <<>>]

----------------------------------------------------------------------------
(* Event queue *)

_queue_event(b, event, param) ==
  LET ev == Ev(event, param)
      q  == b.event_queue
  IN  [b EXCEPT !.queued = Append(@, ev),
                !.event_queue =
                   IF q.alloc /\ Len(q.ev) < MaxQueue
                   THEN [q EXCEPT !.ev = Append(@, ev)]
                   ELSE q]

\* Faulty variant of _get_event: the event is left in the queue.
_get_event_peek(b) ==
  IF b.event_queue.alloc /\ b.event_queue.ev # <<>>
  THEN [b |-> b, ret |-> 1, ev |-> Head(b.event_queue.ev)]
  ELSE [b |-> b, ret |-> 0, ev |-> Ev("BD_EVENT_NONE", 0)]

\* ev: the event handed out, BD_EVENT_NONE when there is none.
_get_event(b) ==
  IF b.event_queue.alloc /\ b.event_queue.ev # <<>>
  THEN [b |-> [b EXCEPT !.event_queue.ev = Tail(@)], ret |-> 1,
        ev |-> Head(b.event_queue.ev)]
  ELSE [b |-> b, ret |-> 0, ev |-> Ev("BD_EVENT_NONE", 0)]

\* How often e stands in a sequence of events.
Count(seq, e) == Cardinality({ i \in DOMAIN seq : seq[i] = e })

\* The BD-J bridge: the event is handed to the runtime.
_bdj_event(b, type, param) ==
  [b EXCEPT !.bdj_sent = Append(@, Ev(type, param))]

----------------------------------------------------------------------------
(* UO mask *)

uo_mask_combine(a, b) == a \cup b

_compressed_mask(mask) ==
  (IF "menu_call" \in mask THEN 1 ELSE 0)
    + 2 * (IF "title_search" \in mask THEN 1 ELSE 0)

\* Faulty variant of _update_uo_mask: the menu page mask is left out.
_update_uo_mask_nopage(b) ==
  LET old_mask == b.uo_mask
      new_mask == uo_mask_combine(b.title_uo_mask, b.st0.uo_mask)
      b1 == IF _compressed_mask(old_mask) # _compressed_mask(new_mask)
            THEN _queue_event(b, "BD_EVENT_UO_MASK_CHANGED",
                              _compressed_mask(new_mask))
            ELSE b
  IN  [b1 EXCEPT !.uo_mask = new_mask]

_update_uo_mask(b) ==
  LET old_mask == b.uo_mask
      new_mask == uo_mask_combine(b.gc_uo_mask,
                     uo_mask_combine(b.title_uo_mask, b.st0.uo_mask))
      b1 == IF _compressed_mask(old_mask) # _compressed_mask(new_mask)
            THEN _queue_event(b, "BD_EVENT_UO_MASK_CHANGED",
                              _compressed_mask(new_mask))
            ELSE b
  IN  [b1 EXCEPT !.uo_mask = new_mask]

\* mask: the bits hdmv_vm_get_uo_mask returns.
_update_hdmv_uo_mask(b, mask) ==
  _update_uo_mask(
    [b EXCEPT !.title_uo_mask =
        (@ \ {"title_search", "menu_call"})
          \cup (mask \cap {"title_search", "menu_call"})])

bd_set_bdj_uo_mask(b, mask) ==
  _update_uo_mask(
    [b EXCEPT !.title_uo_mask =
        (@ \ {"title_search", "menu_call"})
          \cup (mask \cap {"title_search", "menu_call"})])

----------------------------------------------------------------------------
(* Graphics controller interface *)

\* Faulty variant of _run_gc: a change of any status bit announces the
\* menu state.
_run_gc_announce(b, msg, cmds) ==
  IF b.graphics_controller /\ b.hdmv_vm
  THEN
    LET b1 == IF cmds.num_nav_cmds > 0
              THEN [b EXCEPT !.hdmv_suspended =
                                IF cmds.running THEN 0 ELSE 1]
              ELSE b
        changed_flags == (cmds.status \ b1.gc_status)
                           \cup (b1.gc_status \ cmds.status)
        b2 == [b1 EXCEPT !.gc_status = cmds.status]
        b3 == IF changed_flags # {}
              THEN _queue_event(b2, "BD_EVENT_MENU",
                     IF "GC_STATUS_MENU_OPEN" \in b2.gc_status
                     THEN 1 ELSE 0)
              ELSE b2
        b4 == IF "GC_STATUS_POPUP" \in changed_flags
              THEN _queue_event(b3, "BD_EVENT_POPUP",
                     IF "GC_STATUS_POPUP" \in b3.gc_status THEN 1 ELSE 0)
              ELSE b3
        b5 == IF cmds.sound_id_ref >= 0 /\ cmds.sound_id_ref < U8 - 1
              THEN _queue_event(b4, "BD_EVENT_SOUND_EFFECT",
                                cmds.sound_id_ref)
              ELSE b4
        b6 == [b5 EXCEPT !.gc_uo_mask = cmds.page_uo_mask]
    IN  [b |-> _update_uo_mask(b6), ret |-> cmds.result]
  ELSE
    LET b1 == IF "GC_STATUS_MENU_OPEN" \in b.gc_status
              THEN _queue_event(b, "BD_EVENT_MENU", 0)
              ELSE b
        b2 == IF "GC_STATUS_POPUP" \in b1.gc_status
              THEN _queue_event(b1, "BD_EVENT_POPUP", 0)
              ELSE b1
    IN  [b |-> [b2 EXCEPT !.gc_status = GC_STATUS_NONE], ret |-> -1]

\* cmds: what gc_run returns (GC_NAV_CMDS): status, num_nav_cmds,
\* sound_id_ref, page_uo_mask and the result; running: hdmv_vm_running
\* after hdmv_vm_set_object.
_run_gc(b, msg, cmds) ==
  IF b.graphics_controller /\ b.hdmv_vm
  THEN
    LET b1 == IF cmds.num_nav_cmds > 0
              THEN [b EXCEPT !.hdmv_suspended =
                                IF cmds.running THEN 0 ELSE 1]
              ELSE b
        changed_flags == (cmds.status \ b1.gc_status)
                           \cup (b1.gc_status \ cmds.status)
        b2 == [b1 EXCEPT !.gc_status = cmds.status]
        b3 == IF "GC_STATUS_MENU_OPEN" \in changed_flags
              THEN _queue_event(b2, "BD_EVENT_MENU",
                     IF "GC_STATUS_MENU_OPEN" \in b2.gc_status
                     THEN 1 ELSE 0)
              ELSE b2
        b4 == IF "GC_STATUS_POPUP" \in changed_flags
              THEN _queue_event(b3, "BD_EVENT_POPUP",
                     IF "GC_STATUS_POPUP" \in b3.gc_status THEN 1 ELSE 0)
              ELSE b3
        b5 == IF cmds.sound_id_ref >= 0 /\ cmds.sound_id_ref < U8 - 1
              THEN _queue_event(b4, "BD_EVENT_SOUND_EFFECT",
                                cmds.sound_id_ref)
              ELSE b4
        b6 == [b5 EXCEPT !.gc_uo_mask = cmds.page_uo_mask]
    IN  [b |-> _update_uo_mask(b6), ret |-> cmds.result]
  ELSE
    LET b1 == IF "GC_STATUS_MENU_OPEN" \in b.gc_status
              THEN _queue_event(b, "BD_EVENT_MENU", 0)
              ELSE b
        b2 == IF "GC_STATUS_POPUP" \in b1.gc_status
              THEN _queue_event(b1, "BD_EVENT_POPUP", 0)
              ELSE b1
    IN  [b |-> [b2 EXCEPT !.gc_status = GC_STATUS_NONE], ret |-> -1]

----------------------------------------------------------------------------
(* Clip access (BD_STREAM).  s names the stream: "st0" is the main path. *)

_close_m2ts(st) == [st EXCEPT !.fp = FALSE, !.m2ts_filter = FALSE]

\* io: what the disc returns: fp_ok (disc_open_stream), size (file_size),
\* seek_ok (file_seek), filter_ok (m2ts_filter_init), pl_mask and pi_mask
\* (UO masks of the playlist and of the play item).
_open_m2ts(b, s, io) ==
  LET closed == _close_m2ts(b[s]) IN
  IF closed.clip = NoClip
  THEN [b |-> [b EXCEPT ![s] = closed], ret |-> 0]
  ELSE
    LET clip == ClipTable[closed.clip]
        st1  == [closed EXCEPT
                   !.fp = io.fp_ok,
                   !.clip_size = 0,
                   !.clip_pos = clip.start_pkt * PktLen,
                   !.clip_block_pos =
                       ((clip.start_pkt * PktLen) \div UnitLen) * UnitLen,
                   !.eof_hit = 0,
                   !.encrypted_block_cnt = 0]
    IN
    IF st1.fp /\ io.size > 0 /\ ~io.seek_ok
    THEN [b |-> [b EXCEPT ![s] = _close_m2ts(st1)], ret |-> 0]
    ELSE IF st1.fp /\ io.size > 0
    THEN
      LET st2 == [st1 EXCEPT !.clip_size = io.size,
                             !.int_buf_off = UnitLen]
      IN
      IF s = "st0"
      THEN
        LET st3 == [st2 EXCEPT
                      !.uo_mask = uo_mask_combine(io.pl_mask, io.pi_mask)]
            b1  == _update_uo_mask([b EXCEPT ![s] = st3])
        IN [b |-> [b1 EXCEPT ![s].m2ts_filter = io.filter_ok], ret |-> 1]
      ELSE [b |-> [b EXCEPT ![s] = st2], ret |-> 1]
    ELSE [b |-> [b EXCEPT ![s] = _close_m2ts(st1)], ret |-> 0]

\* Faulty variant of _validate_unit: the limit test is written >= 10, so
\* the stream is given up one unit early.
_validate_unit_early(b, s, buf) ==
  IF Cpi(buf) # 0 \/ buf.sync[1] # SyncByte
  THEN
    IF buf.sync[1] # SyncByte \/ buf.sync[2] # SyncByte
         \/ buf.sync[3] # SyncByte \/ buf.sync[4] # SyncByte
    THEN
      IF buf.sync[1] = SyncByte
      THEN
        LET b1 == [b EXCEPT ![s].encrypted_block_cnt = (@ + 1) % U8] IN
        IF b1[s].encrypted_block_cnt >= EncLimit
        THEN [b |-> _queue_event(b1, "BD_EVENT_ENCRYPTED", BD_ERROR_AACS),
              ret |-> -1]
        ELSE [b |-> _queue_event(b1, "BD_EVENT_READ_ERROR", 1), ret |-> 0]
      ELSE [b |-> _queue_event(b, "BD_EVENT_READ_ERROR", 1), ret |-> 0]
    ELSE [b |-> [b EXCEPT ![s].eof_hit = 0, ![s].encrypted_block_cnt = 0],
          ret |-> 1]
  ELSE [b |-> [b EXCEPT ![s].eof_hit = 0, ![s].encrypted_block_cnt = 0],
        ret |-> 1]

\* Faulty variant of _validate_unit: an accepted unit does not reset the
\* encrypted-unit counter.
_validate_unit_noreset(b, s, buf) ==
  IF Cpi(buf) # 0 \/ buf.sync[1] # SyncByte
  THEN
    IF buf.sync[1] # SyncByte \/ buf.sync[2] # SyncByte
         \/ buf.sync[3] # SyncByte \/ buf.sync[4] # SyncByte
    THEN
      IF buf.sync[1] = SyncByte
      THEN
        LET b1 == [b EXCEPT ![s].encrypted_block_cnt = (@ + 1) % U8] IN
        IF b1[s].encrypted_block_cnt > EncLimit
        THEN [b |-> _queue_event(b1, "BD_EVENT_ENCRYPTED", BD_ERROR_AACS),
              ret |-> -1]
        ELSE [b |-> _queue_event(b1, "BD_EVENT_READ_ERROR", 1), ret |-> 0]
      ELSE [b |-> _queue_event(b, "BD_EVENT_READ_ERROR", 1), ret |-> 0]
    ELSE [b |-> [b EXCEPT ![s].eof_hit = 0], ret |-> 1]
  ELSE [b |-> [b EXCEPT ![s].eof_hit = 0], ret |-> 1]

\* Faulty variant of _validate_unit: the encrypted case falls through to
\* the report of a broken unit.
_validate_unit_both(b, s, buf) ==
  IF Cpi(buf) # 0 \/ buf.sync[1] # SyncByte
  THEN
    IF buf.sync[1] # SyncByte \/ buf.sync[2] # SyncByte
         \/ buf.sync[3] # SyncByte \/ buf.sync[4] # SyncByte
    THEN
      IF buf.sync[1] = SyncByte
      THEN
        LET b1 == [b EXCEPT ![s].encrypted_block_cnt = (@ + 1) % U8] IN
        IF b1[s].encrypted_block_cnt > EncLimit
        THEN [b |-> _queue_event(
                      _queue_event(b1, "BD_EVENT_ENCRYPTED", BD_ERROR_AACS),
                      "BD_EVENT_READ_ERROR", 1),
              ret |-> -1]
        ELSE [b |-> _queue_event(b1, "BD_EVENT_READ_ERROR", 1), ret |-> 0]
      ELSE [b |-> _queue_event(b, "BD_EVENT_READ_ERROR", 1), ret |-> 0]
    ELSE [b |-> [b EXCEPT ![s].eof_hit = 0, ![s].encrypted_block_cnt = 0],
          ret |-> 1]
  ELSE [b |-> [b EXCEPT ![s].eof_hit = 0, ![s].encrypted_block_cnt = 0],
        ret |-> 1]

\* Faulty variant of _validate_unit: a unit dropped for its leading sync
\* byte clears the counter.
_validate_unit_drop_clears(b, s, buf) ==
  IF Cpi(buf) # 0 \/ buf.sync[1] # SyncByte
  THEN
    IF buf.sync[1] # SyncByte \/ buf.sync[2] # SyncByte
         \/ buf.sync[3] # SyncByte \/ buf.sync[4] # SyncByte
    THEN
      IF buf.sync[1] = SyncByte
      THEN
        LET b1 == [b EXCEPT ![s].encrypted_block_cnt = (@ + 1) % U8] IN
        IF b1[s].encrypted_block_cnt > EncLimit
        THEN [b |-> _queue_event(b1, "BD_EVENT_ENCRYPTED", BD_ERROR_AACS),
              ret |-> -1]
        ELSE [b |-> _queue_event(b1, "BD_EVENT_READ_ERROR", 1), ret |-> 0]
      ELSE [b |-> _queue_event([b EXCEPT ![s].encrypted_block_cnt = 0],
                               "BD_EVENT_READ_ERROR", 1),
            ret |-> 0]
    ELSE [b |-> [b EXCEPT ![s].eof_hit = 0, ![s].encrypted_block_cnt = 0],
          ret |-> 1]
  ELSE [b |-> [b EXCEPT ![s].eof_hit = 0, ![s].encrypted_block_cnt = 0],
        ret |-> 1]

_validate_unit(b, s, buf) ==
  IF Cpi(buf) # 0 \/ buf.sync[1] # SyncByte
  THEN
    IF buf.sync[1] # SyncByte \/ buf.sync[2] # SyncByte
         \/ buf.sync[3] # SyncByte \/ buf.sync[4] # SyncByte
    THEN
      IF buf.sync[1] = SyncByte
      THEN
        LET b1 == [b EXCEPT ![s].encrypted_block_cnt = (@ + 1) % U8] IN
        IF b1[s].encrypted_block_cnt > EncLimit
        THEN [b |-> _queue_event(b1, "BD_EVENT_ENCRYPTED", BD_ERROR_AACS),
              ret |-> -1]
        ELSE [b |-> _queue_event(b1, "BD_EVENT_READ_ERROR", 1), ret |-> 0]
      ELSE [b |-> _queue_event(b, "BD_EVENT_READ_ERROR", 1), ret |-> 0]
    ELSE [b |-> [b EXCEPT ![s].eof_hit = 0, ![s].encrypted_block_cnt = 0],
          ret |-> 1]
  ELSE [b |-> [b EXCEPT ![s].eof_hit = 0, ![s].encrypted_block_cnt = 0],
        ret |-> 1]

\* Faulty variant of _skip_unit: the block position is left where it was.
_skip_unit_stalled(b, s, seek_ok) ==
  LET b1 == [b EXCEPT ![s].clip_pos = @ + UnitLen]
      b2 == _queue_event(b1, "BD_EVENT_READ_ERROR", 0)
  IN  IF ~seek_ok
      THEN [b |-> b2, ret |-> -1]
      ELSE [b |-> b2, ret |-> 0]

_skip_unit(b, s, seek_ok) ==
  LET b1 == [b EXCEPT ![s].clip_block_pos = @ + UnitLen,
                      ![s].clip_pos = @ + UnitLen]
      b2 == _queue_event(b1, "BD_EVENT_READ_ERROR", 0)
  IN  IF ~seek_ok
      THEN [b |-> b2, ret |-> -1]
      ELSE [b |-> b2, ret |-> 0]

\* Faulty variant of _read_block: a broken unit does not move clip_pos.
_read_block_nopos(b, s, rd) ==
  IF b[s].fp
  THEN
    IF UnitLen + b[s].clip_block_pos <= b[s].clip_size
    THEN
      IF rd.read_len # 0
      THEN
        IF rd.read_len # UnitLen
        THEN _skip_unit(b, s, rd.seek_ok)
        ELSE
          LET b1 == [b EXCEPT ![s].clip_block_pos = @ + UnitLen]
              v  == _validate_unit(b1, s, rd.buf)
          IN
          IF v.ret <= 0
          THEN [b |-> v.b, ret |-> v.ret]
          ELSE IF v.b[s].m2ts_filter /\ rd.filter_res < 0
          THEN [b |-> [v.b EXCEPT ![s].m2ts_filter = FALSE], ret |-> 1]
          ELSE [b |-> v.b, ret |-> 1]
      ELSE _skip_unit(b, s, rd.seek_ok)
    ELSE
      [b |-> [b EXCEPT ![s].clip_block_pos = @ + UnitLen,
                       ![s].clip_pos = @ + UnitLen,
                       ![s].eof_hit = 1],
       ret |-> 0]
  ELSE [b |-> b, ret |-> -1]

\* Faulty variant of _read_block: a filter error ends the read with -1.
_read_block_filter_abort(b, s, rd) ==
  IF b[s].fp
  THEN
    IF UnitLen + b[s].clip_block_pos <= b[s].clip_size
    THEN
      IF rd.read_len # 0
      THEN
        IF rd.read_len # UnitLen
        THEN _skip_unit(b, s, rd.seek_ok)
        ELSE
          LET b1 == [b EXCEPT ![s].clip_block_pos = @ + UnitLen]
              v  == _validate_unit(b1, s, rd.buf)
          IN
          IF v.ret <= 0
          THEN [b |-> [v.b EXCEPT ![s].clip_pos = @ + UnitLen],
                ret |-> v.ret]
          ELSE IF v.b[s].m2ts_filter /\ rd.filter_res < 0
          THEN [b |-> v.b, ret |-> -1]
          ELSE [b |-> v.b, ret |-> 1]
      ELSE _skip_unit(b, s, rd.seek_ok)
    ELSE
      [b |-> [b EXCEPT ![s].clip_block_pos = @ + UnitLen,
                       ![s].clip_pos = @ + UnitLen,
                       ![s].eof_hit = 1],
       ret |-> 0]
  ELSE [b |-> b, ret |-> -1]

\* rd: what the file and the filter return: read_len (file_read), buf (the
\* unit read), seek_ok (file_seek), filter_res (m2ts_filter).
_read_block(b, s, rd) ==
  IF b[s].fp
  THEN
    IF UnitLen + b[s].clip_block_pos <= b[s].clip_size
    THEN
      IF rd.read_len # 0
      THEN
        IF rd.read_len # UnitLen
        THEN _skip_unit(b, s, rd.seek_ok)
        ELSE
          LET b1 == [b EXCEPT ![s].clip_block_pos = @ + UnitLen]
              v  == _validate_unit(b1, s, rd.buf)
          IN
          IF v.ret <= 0
          THEN [b |-> [v.b EXCEPT ![s].clip_pos = @ + UnitLen],
                ret |-> v.ret]
          ELSE IF v.b[s].m2ts_filter /\ rd.filter_res < 0
          THEN [b |-> [v.b EXCEPT ![s].m2ts_filter = FALSE], ret |-> 1]
          ELSE [b |-> v.b, ret |-> 1]
      ELSE _skip_unit(b, s, rd.seek_ok)
    ELSE
      [b |-> [b EXCEPT ![s].clip_block_pos = @ + UnitLen,
                       ![s].clip_pos = @ + UnitLen,
                       ![s].eof_hit = 1],
       ret |-> 0]
  ELSE [b |-> b, ret |-> -1]

\* The position is in a new clip (or no file is open).
NeedOpen(st, clip) ==
  ~st.fp \/ st.clip = NoClip \/ ClipTable[clip].ref # ClipTable[st.clip].ref

\* Faulty variant of _seek_stream: the packet number is taken for a byte
\* position.
_seek_stream_pkt(b, s, clip, clip_pkt, io) ==
  IF clip = NoClip
  THEN [b |-> b, ret |-> -1]
  ELSE
    LET o == IF NeedOpen(b[s], clip)
             THEN _open_m2ts([b EXCEPT ![s].clip = clip], s, io)
             ELSE [b |-> b, ret |-> 1]
    IN
    IF o.ret = 0
    THEN [b |-> o.b, ret |-> -1]
    ELSE
      LET pos == clip_pkt
          blk == (pos \div UnitLen) * UnitLen
      IN [b |-> [o.b EXCEPT ![s].clip_pos = pos,
                            ![s].clip_block_pos = blk,
                            ![s].int_buf_off = UnitLen,
                            ![s].seek_flag = 1],
          ret |-> pos]

\* A file_seek that fails here is only logged.
_seek_stream(b, s, clip, clip_pkt, io) ==
  IF clip = NoClip
  THEN [b |-> b, ret |-> -1]
  ELSE
    LET o == IF NeedOpen(b[s], clip)
             THEN _open_m2ts([b EXCEPT ![s].clip = clip], s, io)
             ELSE [b |-> b, ret |-> 1]
    IN
    IF o.ret = 0
    THEN [b |-> o.b, ret |-> -1]
    ELSE
      LET pos == clip_pkt * PktLen
          blk == (pos \div UnitLen) * UnitLen
      IN [b |-> [o.b EXCEPT ![s].clip_pos = pos,
                            ![s].clip_block_pos = blk,
                            ![s].int_buf_off = UnitLen,
                            ![s].seek_flag = 1],
          ret |-> pos]

----------------------------------------------------------------------------
(* Playlist selection *)

\* Closes the clip and the playlist and resets the stream and menu page UO
\* masks.  stop: the playlist was left before its end (PLAYLIST_STOP).
_close_playlist(b, stop) ==
  LET b1 == IF b.title /\ b.st0.clip # NoClip /\ stop
            THEN _queue_event(b, "BD_EVENT_PLAYLIST_STOP", 0)
            ELSE b
      b2 == [b1 EXCEPT !.st0 = [_close_m2ts(@) EXCEPT
                                   !.clip = NoClip,
                                   !.uo_mask = EMPTY_UO_MASK],
                       !.title = FALSE,
                       !.gc_uo_mask = EMPTY_UO_MASK]
  IN  _update_uo_mask(b2)

\* Opens a playlist and its first clip.  io.pl_ok: the playlist file was
\* found and parsed.  o: the outcome of _open_m2ts for the first clip.
_open_playlist_done(o) ==
  IF o.ret = 1
  THEN [b |-> [o.b EXCEPT !.st0.seek_flag = 1], ret |-> 1]
  ELSE [b |-> o.b, ret |-> 0]

_open_playlist_clip(b, io) ==
  IF ~io.pl_ok
  THEN [b |-> b, ret |-> 0]
  ELSE _open_playlist_done(
         _open_m2ts([b EXCEPT !.title = TRUE, !.st0.clip = 1], "st0", io))

_open_playlist(b, io) ==
  _open_playlist_clip(_close_playlist(b, io.stop), io)

----------------------------------------------------------------------------
(* Title selection *)

\* io: what the disc index and the runtimes return: found (the title is in
\* the index), bdj (it is a BD-J title), bdj_ok (the BD-J runtime started),
\* running (hdmv_vm_running after the movie object was selected).
_play_hdmv(b, io) ==
  [b |-> [b EXCEPT !.title_type = "title_hdmv",
                   !.hdmv_vm = TRUE,
                   !.hdmv_suspended = IF io.running THEN 0 ELSE 1],
   ret |-> 1]

_play_bdj(b, io) ==
  IF io.bdj_ok
  THEN [b |-> [b EXCEPT !.title_type = "title_bdj"], ret |-> 1]
  ELSE [b |-> [b EXCEPT !.title_type = "title_undef"], ret |-> 0]

\* bd_psr_write, as the calling operation sees it: the write is noted
\* in the states that keep the register writes of the running operation.
bd_psr_write(b, reg, val) ==
  IF "psr_written" \in DOMAIN b
  THEN [b EXCEPT !.psr_written = Append(@, [reg |-> reg, val |-> val])]
  ELSE b

_play_title(b, title, io) ==
  IF io.found
  THEN LET b1 == bd_psr_write(b, "PSR_TITLE_NUMBER", title) IN
       IF io.bdj THEN _play_bdj(b1, io) ELSE _play_hdmv(b1, io)
  ELSE [b |-> b, ret |-> 0]

bd_play(b, io) ==
  LET b1 == [b EXCEPT !.title_type = "title_undef",
                      !.hdmv_vm = FALSE,
                      !.event_queue.alloc = TRUE]
  IN  _play_title(b1, BLURAY_TITLE_FIRST_PLAY, io)

\* Faulty variant of _try_play_title: the UO mask is not looked at.
_try_play_title_unmasked(b, title, io) ==
  IF b.title_type = "title_undef" /\ title # BLURAY_TITLE_FIRST_PLAY
  THEN [b |-> b, ret |-> 0]
  ELSE _play_title(b, title, io)

_try_play_title(b, title, io) ==
  IF b.title_type = "title_undef" /\ title # BLURAY_TITLE_FIRST_PLAY
  THEN [b |-> b, ret |-> 0]
  ELSE IF "title_search" \in b.uo_mask
  THEN [b |-> _bdj_event(b, "BDJ_EVENT_UO_MASKED",
                         UO_MASK_TITLE_SEARCH_INDEX),
        ret |-> 0]
  ELSE _play_title(b, title, io)

bd_register_overlay_proc(b, func) ==
  [b EXCEPT !.graphics_controller = func]

\* Creates the event queue when the application asks for events first.
bd_get_event(b) ==
  _get_event([b EXCEPT !.event_queue.alloc = TRUE])

----------------------------------------------------------------------------
(* HDMV VM events *)

GcMsgOf(event) ==
  CASE event = "HDMV_EVENT_ENABLE_BUTTON"   -> "GC_CTRL_ENABLE_BUTTON"
    [] event = "HDMV_EVENT_DISABLE_BUTTON"  -> "GC_CTRL_DISABLE_BUTTON"
    [] event = "HDMV_EVENT_SET_BUTTON_PAGE" -> "GC_CTRL_SET_BUTTON_PAGE"
    [] event = "HDMV_EVENT_POPUP_OFF"       -> "GC_CTRL_POPUP"
    [] event = "HDMV_EVENT_IG_END"          -> "GC_CTRL_IG_END"

\* case HDMV_EVENT_PLAY_PL, behind bd_select_playlist: o is its outcome.
_play_pl(o, hev, running) ==
  IF o.ret = 0
  THEN
    LET b1 == [o.b EXCEPT !.hdmv_num_invalid_pl = (@ + 1) % U8] IN
    IF b1.hdmv_num_invalid_pl < InvalidPlLimit
    THEN [b1 EXCEPT !.hdmv_suspended = IF running THEN 0 ELSE 1]
    ELSE _run_gc(b1, "GC_CTRL_INIT_MENU", hev.cmds).b
  ELSE _run_gc([o.b EXCEPT !.hdmv_num_invalid_pl = 0],
               "GC_CTRL_INIT_MENU", hev.cmds).b

\* hev: the event with what its handling gets from the collaborators: io
\* (title or playlist lookup), cmds (gc_run); running: hdmv_vm_running.
\* HDMV_EVENT_PLAY_PI and HDMV_EVENT_PLAY_PM (seeks inside the playlist)
\* are not among the events of this model.
_process_hdmv_vm_event(b, hev, running) ==
  CASE hev.event = "HDMV_EVENT_TITLE" ->
         _play_title(_close_playlist(b, hev.io.stop), hev.param,
                     hev.io).b
    [] hev.event = "HDMV_EVENT_PLAY_PL" ->
         _play_pl(_open_playlist(b, hev.io), hev, running)
    [] hev.event = "HDMV_EVENT_PLAY_STOP" ->
         [_close_playlist(b, hev.io.stop) EXCEPT
            !.hdmv_suspended = IF running THEN 0 ELSE 1]
    [] hev.event = "HDMV_EVENT_STILL" ->
         _queue_event(b, "BD_EVENT_STILL", hev.param)
    [] hev.event \in {"HDMV_EVENT_ENABLE_BUTTON",
                      "HDMV_EVENT_DISABLE_BUTTON",
                      "HDMV_EVENT_SET_BUTTON_PAGE",
                      "HDMV_EVENT_POPUP_OFF", "HDMV_EVENT_IG_END"} ->
         _run_gc(b, GcMsgOf(hev.event), hev.cmds).b
    [] OTHER -> b

\* do { _process_hdmv_vm_event } while (!hdmv_vm_get_event): evs are the
\* events the VM has for this run, in order.
RECURSIVE ProcessVmEvents(_, _, _)
ProcessVmEvents(b, evs, running) ==
  IF evs = << >>
  THEN b
  ELSE ProcessVmEvents(_process_hdmv_vm_event(b, Head(evs), running),
                       Tail(evs), running)

\* Faulty variant of _run_hdmv: a VM fault queues no event.
_run_hdmv_silent(b, vm) ==
  IF vm.fault
  THEN [b |-> [b EXCEPT !.hdmv_suspended = IF vm.running THEN 0 ELSE 1],
        ret |-> -1]
  ELSE
    LET b1 == ProcessVmEvents(b, vm.events, vm.running)
        b2 == [b1 EXCEPT !.hdmv_suspended = IF vm.running THEN 0 ELSE 1]
    IN  [b |-> _update_hdmv_uo_mask(b2, vm.uo_mask), ret |-> 0]

\* vm: what the VM does in this run: fault (hdmv_vm_run < 0), events,
\* running (hdmv_vm_running), uo_mask (hdmv_vm_get_uo_mask).
_run_hdmv(b, vm) ==
  IF vm.fault
  THEN [b |-> [_queue_event(b, "BD_EVENT_ERROR", BD_ERROR_HDMV) EXCEPT
                 !.hdmv_suspended = IF vm.running THEN 0 ELSE 1],
        ret |-> -1]
  ELSE
    LET b1 == ProcessVmEvents(b, vm.events, vm.running)
        b2 == [b1 EXCEPT !.hdmv_suspended = IF vm.running THEN 0 ELSE 1]
    IN  [b |-> _update_hdmv_uo_mask(b2, vm.uo_mask), ret |-> 0]

----------------------------------------------------------------------------
(* bd_read_ext *)

\* The payload read: len more bytes of the clip while it has them, else
\* the end of the title (no next clip): the clip is closed and
\* BD_EVENT_END_OF_TITLE is queued.  -1 when no title is open.
_bd_read_locked(b, len) ==
  IF ~b.title
  THEN [b |-> b, ret |-> -1]
  ELSE IF b.st0.clip = NoClip
  THEN [b |-> b, ret |-> 0]
  ELSE IF b.st0.fp /\ b.st0.clip_pos + len <= b.st0.clip_size
  THEN [b |-> [b EXCEPT !.st0.clip_pos = @ + len],
        ret |-> len]
  ELSE [b |-> [_queue_event(b, "BD_EVENT_END_OF_TITLE", 0) EXCEPT
                 !.st0 = [_close_m2ts(@) EXCEPT !.clip = NoClip],
                 !.end_of_playlist = 1],
        ret |-> 0]

\* The frame of a bd_read_ext call: pc is where the call stands ("loop":
\* at the test of the VM loop, "tail": behind the loop, "idle": returned),
\* val and event what it returns, loops the local counter (it counts the
\* VM runs of the call and is dead once the loop is left), hdmv whether
\* the title was an HDMV title when the call began.  Observations:
\* pending (an event was waiting when the call began), watchdog (the test
\* loops++ > 100 held), fault (hdmv_vm_run failed), read (the payload read
\* was made), susp_at_read (hdmv_suspended at that moment), nop_cmds (the
\* GC_CTRL_NOP run handed commands to the VM).
Frame(len) ==
  [ op |-> "read_ext", pc |-> "idle", val |-> 0,
    event |-> Ev("BD_EVENT_NONE", 0), len |-> len, loops |-> 0,
    hdmv |-> FALSE, pending |-> FALSE, watchdog |-> FALSE,
    fault |-> FALSE, read |-> FALSE, susp_at_read |-> 0,
    nop_cmds |-> FALSE ]

\* Faulty variant of _read_ext_begin: the pending event is handed out but
\* the call goes on.
_read_ext_begin_on(b, len) ==
  LET g  == _get_event(b)
      fr == [Frame(len) EXCEPT !.pending = g.ret = 1, !.event = g.ev]
  IN
  IF b.title_type = "title_hdmv"
  THEN [b |-> g.b, fr |-> [fr EXCEPT !.pc = "loop", !.hdmv = TRUE]]
  ELSE [b |-> g.b, fr |-> [fr EXCEPT !.pc = "tail"]]

\* Entry of _read_ext: a pending event ends the call.
_read_ext_begin(b, len) ==
  LET g  == _get_event(b)
      fr == [Frame(len) EXCEPT !.pending = g.ret = 1, !.event = g.ev]
  IN
  IF g.ret = 1
  THEN [b |-> g.b, fr |-> fr]
  ELSE IF b.title_type = "title_hdmv"
  THEN [b |-> g.b, fr |-> [fr EXCEPT !.pc = "loop", !.hdmv = TRUE]]
  ELSE [b |-> g.b, fr |-> [fr EXCEPT !.pc = "tail"]]

\* The end of a pass of the VM loop: g is the outcome of _get_event, wd
\* whether the test loops++ > 100 held.
_read_ext_pass_end(fr, wd, g) ==
  IF g.ret = 1
  THEN [b |-> g.b,
        fr |-> [fr EXCEPT !.pc = "idle", !.val = 0, !.event = g.ev,
                          !.watchdog = wd, !.loops = 0]]
  ELSE [b |-> g.b,
        fr |-> [fr EXCEPT !.watchdog = wd, !.loops = @ + 1]]

\* Faulty variant of _read_ext_pass: no live lock guard.
_read_ext_pass_unguarded(fr, r) ==
  IF r.ret < 0
  THEN [b |-> [r.b EXCEPT !.title_type = "title_undef"],
        fr |-> [fr EXCEPT !.pc = "idle", !.val = -1, !.fault = TRUE,
                          !.loops = 0]]
  ELSE _read_ext_pass_end(fr, fr.loops > LoopLimit, _get_event(r.b))

\* The body of the VM loop behind _run_hdmv: r is its outcome.
_read_ext_pass(fr, r) ==
  IF r.ret < 0
  THEN [b |-> [r.b EXCEPT !.title_type = "title_undef"],
        fr |-> [fr EXCEPT !.pc = "idle", !.val = -1, !.fault = TRUE,
                          !.loops = 0]]
  ELSE _read_ext_pass_end(fr, fr.loops > LoopLimit,
         _get_event(IF fr.loops > LoopLimit
                    THEN _queue_event(r.b, "BD_EVENT_ERROR", BD_ERROR_HDMV)
                    ELSE r.b))

\* Faulty variant of _read_ext_loop: the VM is run once and the loop is
\* left whether or not it suspended.
_read_ext_loop_once(b, fr, vm) ==
  IF b.hdmv_suspended # 0 \/ fr.loops > 0
  THEN [b |-> b, fr |-> [fr EXCEPT !.pc = "tail", !.loops = 0]]
  ELSE _read_ext_pass(fr, _run_hdmv(b, vm))

\* One pass of while (!bd->hdmv_suspended): the test and, when it holds,
\* the body.
_read_ext_loop(b, fr, vm) ==
  IF b.hdmv_suspended # 0
  THEN [b |-> b, fr |-> [fr EXCEPT !.pc = "tail", !.loops = 0]]
  ELSE _read_ext_pass(fr, _run_hdmv(b, vm))

\* Faulty variant of _read_ext_tail: the end of the playlist is not marked
\* as sent.
_read_ext_tail_unmarked(b, fr, io) ==
  LET nop == fr.hdmv /\ "GC_STATUS_ANIMATE" \in b.gc_status
      b1  == IF nop THEN _run_gc(b, "GC_CTRL_NOP", io.cmds).b ELSE b
      fr1 == [fr EXCEPT !.pc = "idle",
                        !.nop_cmds = nop /\ b.graphics_controller
                                         /\ b.hdmv_vm
                                         /\ io.cmds.num_nav_cmds > 0]
      bdj == b1.title_type = "title_bdj"
      b2  == IF bdj /\ b1.end_of_playlist = 1
             THEN _bdj_event(b1, "BDJ_EVENT_END_OF_PLAYLIST", 0)
             ELSE b1
  IN
  IF fr.len < 1
  THEN [b |-> b1, fr |-> [fr1 EXCEPT !.val = 0]]
  ELSE IF bdj /\ ~b2.title
  THEN [b |-> _queue_event(b2, "BD_EVENT_IDLE", 0),
        fr |-> [fr1 EXCEPT !.val = 0]]
  ELSE IF bdj /\ b2.bdj_wait_start # 0
  THEN [b |-> _queue_event(b2, "BD_EVENT_IDLE", 1),
        fr |-> [fr1 EXCEPT !.val = 0]]
  ELSE
    LET r  == _bd_read_locked(b2, fr.len)
        b3 == IF r.ret = 0 /\ r.b.st0.clip = NoClip
                           /\ r.b.title_type = "title_hdmv"
              THEN [r.b EXCEPT !.hdmv_suspended =
                                  IF io.running THEN 0 ELSE 1]
              ELSE r.b
        g  == _get_event(b3)
    IN [b |-> g.b,
        fr |-> [fr1 EXCEPT !.val = r.ret, !.event = g.ev, !.read = TRUE,
                           !.susp_at_read = b2.hdmv_suspended]]

\* Behind the loop.  io: cmds (gc_run for GC_CTRL_NOP), running
\* (hdmv_vm_running after hdmv_vm_resume).
_read_ext_tail(b, fr, io) ==
  LET nop == fr.hdmv /\ "GC_STATUS_ANIMATE" \in b.gc_status
      b1  == IF nop THEN _run_gc(b, "GC_CTRL_NOP", io.cmds).b ELSE b
      fr1 == [fr EXCEPT !.pc = "idle",
                        !.nop_cmds = nop /\ b.graphics_controller
                                         /\ b.hdmv_vm
                                         /\ io.cmds.num_nav_cmds > 0]
      bdj == b1.title_type = "title_bdj"
      b2  == IF bdj /\ b1.end_of_playlist = 1
             THEN [_bdj_event(b1, "BDJ_EVENT_END_OF_PLAYLIST", 0) EXCEPT
                     !.end_of_playlist = 3]
             ELSE b1
  IN
  IF fr.len < 1
  THEN [b |-> b1, fr |-> [fr1 EXCEPT !.val = 0]]
  ELSE IF bdj /\ ~b2.title
  THEN [b |-> _queue_event(b2, "BD_EVENT_IDLE", 0),
        fr |-> [fr1 EXCEPT !.val = 0]]
  ELSE IF bdj /\ b2.bdj_wait_start # 0
  THEN [b |-> _queue_event(b2, "BD_EVENT_IDLE", 1),
        fr |-> [fr1 EXCEPT !.val = 0]]
  ELSE
    LET r  == _bd_read_locked(b2, fr.len)
        b3 == IF r.ret = 0 /\ r.b.st0.clip = NoClip
                           /\ r.b.title_type = "title_hdmv"
              THEN [r.b EXCEPT !.hdmv_suspended =
                                  IF io.running THEN 0 ELSE 1]
              ELSE r.b
        g  == _get_event(b3)
    IN [b |-> g.b,
        fr |-> [fr1 EXCEPT !.val = r.ret, !.event = g.ev, !.read = TRUE,
                           !.susp_at_read = b2.hdmv_suspended]]

----------------------------------------------------------------------------
(* Inputs of the stream operations *)

\* What the disc returns when a clip is opened: the file opens with its
\* size, or disc_open_stream fails, or the file is empty, or file_seek fails.
OpenIo(clip, outcome, pl_mask, pi_mask) ==
  [ fp_ok |-> outcome # "no_fp",
    size |-> IF outcome = "empty" THEN 0 ELSE ClipTable[clip].size,
    seek_ok |-> outcome # "seek_fail",
    filter_ok |-> TRUE,
    pl_mask |-> pl_mask, pi_mask |-> pi_mask,
    pl_ok |-> TRUE, stop |-> FALSE ]

OpenOutcomes == {"ok", "no_fp", "empty", "seek_fail"}

StreamOpenInputs(clip) ==
  { OpenIo(clip, o, EMPTY_UO_MASK, EMPTY_UO_MASK) : o \in OpenOutcomes }

\* Units a clip file may hold, one or two of each kind _validate_unit
\* tells apart.
StreamUnits ==
  { Unit(0, SyncByte, SyncByte, SyncByte, SyncByte),
    Unit(CpiMask, SyncByte, SyncByte, SyncByte, SyncByte),
    Unit(0, SyncByte, SyncByte, 0, SyncByte),
    Unit(CpiMask, SyncByte, 0, SyncByte, SyncByte),
    Unit(64, SyncByte, SyncByte, SyncByte, 0),
    Unit(0, 0, SyncByte, SyncByte, SyncByte),
    Unit(CpiMask, 0, 0, 0, 0) }

CleanUnit == Unit(0, SyncByte, SyncByte, SyncByte, SyncByte)

\* A short read returns 100 bytes.  file_seek is called only after a read
\* that was not whole; the filter fails, if it does, on the clean unit.
ReadInputs ==
  { rd \in [ read_len : {0, 100, UnitLen}, buf : StreamUnits,
             seek_ok : BOOLEAN, filter_res : {0, -1} ] :
      /\ rd.read_len # UnitLen => rd.buf = CleanUnit
      /\ rd.buf # CleanUnit => rd.filter_res = 0
      /\ rd.read_len = UnitLen => rd.seek_ok }

SeekPkts == {0, 33}

\* The unit is one _validate_unit counts as encrypted: copy permission
\* bits set, leading sync byte present, a later sync byte missing.
EncryptedClass(buf) ==
  /\ Cpi(buf) # 0
  /\ buf.sync[1] = SyncByte
  /\ \E i \in 2..4 : buf.sync[i] # SyncByte

\* Copy permission bits set and leading sync byte present, whatever the
\* later sync bytes are.
CpiLeadingSync(buf) == Cpi(buf) # 0 /\ buf.sync[1] = SyncByte

AllSyncs(buf) == \A i \in 1..4 : buf.sync[i] = SyncByte

\* The call reads a whole unit from the file.
ReadsUnit(st, rd) ==
  st.fp /\ UnitLen + st.clip_block_pos <= st.clip_size
        /\ rd.read_len = UnitLen

\* enc_run: the number of units read since the clip was opened, when all
\* of them were EncryptedClass units; -1 otherwise.  cpi_run: the same
\* count for CpiLeadingSync units, not counted beyond EncLimit + 1.
\* faulted: an HDMV VM fault has ended a title and no title has been
\* started since.
\* size: the size of the file of the clip last given to _preload_m2ts.
InitHist ==
  [enc_run |-> -1, cpi_run |-> -1, faulted |-> FALSE, enc_reported |-> FALSE,
   size |-> 0]

EvEncrypted == Ev("BD_EVENT_ENCRYPTED", BD_ERROR_AACS)

OpenedHist(ok) ==
  IF ok THEN [InitHist EXCEPT !.enc_run = 0, !.cpi_run = 0] ELSE InitHist

ReadHist(h, st, rd) ==
  [h EXCEPT
     !.enc_run = IF ReadsUnit(st, rd) /\ EncryptedClass(rd.buf) /\ @ >= 0
                 THEN @ + 1 ELSE -1,
     !.cpi_run = IF ReadsUnit(st, rd) /\ CpiLeadingSync(rd.buf) /\ @ >= 0
                 THEN (IF @ > EncLimit THEN @ ELSE @ + 1)
                 ELSE -1 ]

----------------------------------------------------------------------------
(* Operations on the main path stream *)

Init ==
  /\ bd = InitBd
  /\ ret = [op |-> "init", val |-> 0]
  /\ hist = InitHist

OpenPlaylist ==
  \E io \in StreamOpenInputs(1) :
    LET r == _open_playlist(Enter(bd), io) IN
    /\ bd' = r.b
    /\ ret' = [op |-> "open", val |-> r.ret]
    /\ hist' = OpenedHist(r.ret = 1)

\* The disc is asked only when the seek opens a clip.
SeekStream ==
  /\ bd.title
  /\ \E clip \in ClipIds, pkt \in SeekPkts :
       \E io \in IF NeedOpen(bd.st0, clip)
                 THEN StreamOpenInputs(clip)
                 ELSE {OpenIo(clip, "ok", EMPTY_UO_MASK, EMPTY_UO_MASK)} :
         LET r == _seek_stream(Enter(bd), "st0", clip, pkt, io) IN
         /\ bd' = r.b
         /\ ret' = [op |-> "seek", val |-> r.ret, pkt |-> pkt]
         /\ hist' = IF NeedOpen(bd.st0, clip)
                     THEN OpenedHist(r.ret >= 0) ELSE hist

\* valid: what _validate_unit says of the unit, 2 when none is validated.
ReadBlock ==
  /\ bd.st0.clip_block_pos <= MaxUnits * UnitLen
  /\ bd.st0.encrypted_block_cnt < EncLimit + MaxOver
  /\ \E rd \in ReadInputs :
       LET r == _read_block(Enter(bd), "st0", rd) IN
       /\ bd' = r.b
       /\ ret' = [op |-> "read", val |-> r.ret, read_len |-> rd.read_len,
                  valid |-> IF ReadsUnit(bd.st0, rd)
                            THEN _validate_unit(bd, "st0", rd.buf).ret
                            ELSE 2,
                  filter_err |-> /\ ReadsUnit(bd.st0, rd)
                                 /\ AllSyncs(rd.buf) /\ Cpi(rd.buf) = 0
                                 /\ bd.st0.m2ts_filter
                                 /\ rd.filter_res < 0]
       /\ hist' = [ReadHist(hist, bd.st0, rd) EXCEPT
                     !.enc_reported = @ \/ Count(bd'.queued, EvEncrypted) > 0]

NextStream == OpenPlaylist \/ SeekStream \/ ReadBlock

SpecStream == Init /\ [][NextStream]_vars

----------------------------------------------------------------------------
(* Properties of the stream cursor, checked under SpecStream *)

\* C1 (as amended): from a freshly opened clip, while every unit read is
\* of the encrypted class that _validate_unit counts (copy permission bits
\* set, leading sync byte present, a later sync byte missing), each of the
\* first 10 reads returns 0 and reports only a BD_EVENT_READ_ERROR, and the
\* 11th reports BD_EVENT_ENCRYPTED and returns -1.
EncryptedOnEleventh ==
  /\ (ret.op = "read" /\ hist.enc_run >= 1 /\ hist.enc_run <= EncLimit)
       => /\ ret.val = 0
          /\ bd.queued = << Ev("BD_EVENT_READ_ERROR", 1) >>
  /\ (ret.op = "read" /\ hist.enc_run = EncLimit + 1)
       => /\ ret.val = -1
          /\ bd.queued = << Ev("BD_EVENT_ENCRYPTED", BD_ERROR_AACS) >>

\* The 11th encrypted-class unit in a row has just been read.
EleventhEncryptedRead ==
  ret.op = "read" /\ hist.enc_run = EncLimit + 1 /\ ret.val = -1

\* C1 as stated: the same, for every unit with copy permission bits set
\* and the leading sync byte present.
CpiUnitsEncryptedOnEleventh ==
  /\ (ret.op = "read" /\ hist.cpi_run >= 1 /\ hist.cpi_run <= EncLimit)
       => /\ ret.val = 0
          /\ bd.queued = << Ev("BD_EVENT_READ_ERROR", 1) >>
  /\ (ret.op = "read" /\ hist.cpi_run = EncLimit + 1)
       => /\ ret.val = -1
          /\ bd.queued = << Ev("BD_EVENT_ENCRYPTED", BD_ERROR_AACS) >>

\* C3: a _read_block call that reads a whole unit which _validate_unit
\* drops (result 0) returns 0, reports one BD_EVENT_READ_ERROR and leaves
\* clip_block_pos and clip_pos 6144 bytes further.
CorruptUnitSkipped ==
  [][ (ret'.op = "read" /\ ret'.valid = 0) =>
        /\ ret'.val = 0
        /\ bd'.queued = << Ev("BD_EVENT_READ_ERROR", 1) >>
        /\ bd'.st0.clip_block_pos = bd.st0.clip_block_pos + UnitLen
        /\ bd'.st0.clip_pos = bd.st0.clip_pos + UnitLen ]_vars

\* A dropped unit has been read and skipped after an accepted one.
CorruptUnitRead ==
  /\ ret.op = "read" /\ ret.valid = 0 /\ ret.val = 0
  /\ bd.st0.clip_block_pos = 2 * UnitLen
  /\ bd.st0.clip_pos = UnitLen

\* C4: every _read_block call on a stream with an open file moves
\* clip_block_pos forward by exactly 6144 bytes, whatever the outcome.
ReadAlwaysAdvances ==
  [][ (ret'.op = "read" /\ bd.st0.fp) =>
        bd'.st0.clip_block_pos = bd.st0.clip_block_pos + UnitLen ]_vars

\* A read past the end of the clip file has hit the end-of-file mark.
TruncatedClipRead ==
  /\ ret.op = "read" /\ ret.val = 0 /\ bd.st0.fp
  /\ bd.st0.eof_hit = 1
  /\ bd.st0.clip_block_pos > bd.st0.clip_size
  /\ bd.queued = << >>

EncryptedReportedOnce ==
  [][ (hist.enc_reported /\ ret'.op = "read" /\ hist'.enc_reported)
      => Count(bd'.queued, EvEncrypted) = 0 ]_vars


\* C25: one _read_block call queues at most one event, a
\* BD_EVENT_READ_ERROR or a BD_EVENT_ENCRYPTED, and none for a unit it
\* returns as read.
UnitQueuesOneError ==
  ret.op = "read"
    => /\ Len(bd.queued) <= 1
       /\ \A i \in DOMAIN bd.queued :
            bd.queued[i].event \in {"BD_EVENT_READ_ERROR",
                                    "BD_EVENT_ENCRYPTED"}
       /\ ret.val = 1 => bd.queued = <<>>
       /\ Count(bd.queued, EvEncrypted) = 1 => ret.val = -1

\* The unit that is given up as encrypted is reported by
\* BD_EVENT_ENCRYPTED alone.
EncryptedAlone ==
  /\ ret.op = "read" /\ ret.valid = -1
  /\ bd.queued = <<EvEncrypted>>

\* C26: when the filter reports an error for an accepted unit the read
\* returns 1 with the filter closed, the file open, the block position one
\* unit on and no event queued; a read never opens a filter, so the units
\* read after it are not filtered until a clip file is opened (_open_m2ts
\* sets up a new filter).
FilterErrorClosesFilter ==
  [][ /\ (ret'.op = "read" /\ ret'.filter_err) =>
            /\ ret'.val = 1
            /\ ~bd'.st0.m2ts_filter /\ bd'.st0.fp
            /\ bd'.st0.clip_block_pos = bd.st0.clip_block_pos + UnitLen
            /\ bd'.st0.clip_pos = bd.st0.clip_pos
            /\ bd'.queued = <<>>
      /\ (ret'.op = "read" /\ ~bd.st0.m2ts_filter) => ~bd'.st0.m2ts_filter
      /\ (~bd.st0.m2ts_filter /\ bd'.st0.m2ts_filter) =>
            /\ ret'.op \in {"open", "seek"}
            /\ bd'.st0.encrypted_block_cnt = 0 /\ bd'.st0.eof_hit = 0
    ]_vars

\* A unit was read and accepted while the file was open and the filter
\* closed.
UnitReadWithoutFilter ==
  /\ ret.op = "read" /\ ret.val = 1 /\ ~ret.filter_err
  /\ bd.st0.fp /\ ~bd.st0.m2ts_filter

\* C26 as stated: after a filter error all later units are read without
\* the filter.  (In this model an open file without a filter is a file
\* whose filter has reported an error.)
FilterStaysClosed ==
  [][ (bd.st0.fp /\ ~bd.st0.m2ts_filter) => ~bd'.st0.m2ts_filter ]_vars

----------------------------------------------------------------------------
(* _validate_unit on its own: every unit against every counter value *)

\* An open main-path stream with any value of the 8-bit counter and of
\* the end-of-file mark.
ValidateStates ==
  { [InitBd EXCEPT !.title = TRUE,
                   !.st0 = [InitStream EXCEPT
                              !.clip = 1, !.fp = TRUE,
                              !.clip_size = ClipTable[1].size,
                              !.int_buf_off = UnitLen,
                              !.seek_flag = 1,
                              !.m2ts_filter = TRUE,
                              !.eof_hit = e,
                              !.encrypted_block_cnt = c]] :
      c \in 0..(U8 - 1), e \in {0, 1} }

InitValidate ==
  /\ bd \in ValidateStates
  /\ ret = [op |-> "init", val |-> 0]
  /\ hist = InitHist

ValidateUnit ==
  /\ ret.op = "init"
  /\ \E buf \in AllUnits :
       LET r == _validate_unit(Enter(bd), "st0", buf) IN
       /\ bd' = r.b
       /\ ret' = [op |-> "validate", val |-> r.ret, buf |-> buf,
                  cnt |-> bd.st0.encrypted_block_cnt]
       /\ hist' = hist

NextValidate == ValidateUnit

SpecValidate == InitValidate /\ [][NextValidate]_vars

\* C2 (as amended): _validate_unit returns 1, with eof_hit and the
\* encrypted-unit counter reset, exactly for the units whose leading sync
\* byte is present and which have either no copy permission bit set or all
\* four sync bytes present; every other unit that is not of the encrypted
\* class is dropped with result 0 and one BD_EVENT_READ_ERROR.
ValidateAccepts ==
  ret.op = "validate" =>
    /\ ret.val = 1 <=> /\ ret.buf.sync[1] = SyncByte
                       /\ (Cpi(ret.buf) = 0 \/ AllSyncs(ret.buf))
    /\ ret.val = 1 => /\ bd.st0.eof_hit = 0
                      /\ bd.st0.encrypted_block_cnt = 0
                      /\ bd.queued = << >>
    /\ (ret.val # 1 /\ ~EncryptedClass(ret.buf))
         => /\ ret.val = 0
            /\ bd.queued = << Ev("BD_EVENT_READ_ERROR", 1) >>
            /\ bd.st0.encrypted_block_cnt = ret.cnt

\* A unit without copy permission bits whose third sync byte is missing
\* has been accepted and has reset a running counter.
DamagedUnitAccepted ==
  /\ ret.op = "validate" /\ ret.val = 1
  /\ Cpi(ret.buf) = 0 /\ ret.buf.sync[3] # SyncByte
  /\ ret.cnt = EncLimit /\ bd.st0.encrypted_block_cnt = 0

\* C2 as stated: a unit is accepted exactly when all four sync bytes are
\* present.
AcceptsIffAllSyncs ==
  ret.op = "validate" => (ret.val = 1 <=> AllSyncs(ret.buf))

----------------------------------------------------------------------------
(* The player in navigation mode *)

GcStatuses ==
  { GC_STATUS_NONE, {"GC_STATUS_MENU_OPEN", "GC_STATUS_ANIMATE"} }

Cmds(status, num_nav_cmds, running) ==
  [ status |-> status, num_nav_cmds |-> num_nav_cmds, running |-> running,
    sound_id_ref |-> -1, page_uo_mask |-> EMPTY_UO_MASK, result |-> 0 ]

NoCmds == Cmds(GC_STATUS_NONE, 0, FALSE)

\* What gc_run may return: either status, with or without commands for
\* the VM.
PlayerCmds ==
  { Cmds(st, 0, FALSE) : st \in GcStatuses }
  \cup { Cmds(st, 1, r) : st \in GcStatuses, r \in BOOLEAN }

\* Title and playlist lookups.
PlayerIo(found, bdj, bdj_ok, running, pl_ok) ==
  [ found |-> found, bdj |-> bdj, bdj_ok |-> bdj_ok, running |-> running,
    pl_ok |-> pl_ok, stop |-> FALSE,
    fp_ok |-> TRUE, size |-> ClipTable[1].size, seek_ok |-> TRUE,
    filter_ok |-> TRUE,
    pl_mask |-> EMPTY_UO_MASK, pi_mask |-> EMPTY_UO_MASK ]

NoIo == PlayerIo(FALSE, FALSE, FALSE, FALSE, FALSE)

TitleIos ==
  { PlayerIo(TRUE, FALSE, FALSE, TRUE, FALSE),
    PlayerIo(TRUE, FALSE, FALSE, FALSE, FALSE),
    PlayerIo(TRUE, TRUE, TRUE, FALSE, FALSE),
    NoIo }

Hev(event, param, io, cmds) ==
  [event |-> event, param |-> param, io |-> io, cmds |-> cmds]

\* The events one VM run may end with.  A playlist is missing at most
\* MaxInvalidPl times in a row.  After a title jump the VM runs only when
\* the new title is an HDMV title whose movie object runs.
VmEvents(b) ==
  { Hev("HDMV_EVENT_NONE", 0, NoIo, NoCmds),
    Hev("HDMV_EVENT_STILL", 1, NoIo, NoCmds),
    Hev("HDMV_EVENT_PLAY_STOP", 0, NoIo, NoCmds) }
  \cup { Hev("HDMV_EVENT_SET_BUTTON_PAGE", 1, NoIo, c) : c \in PlayerCmds }
  \cup { Hev("HDMV_EVENT_PLAY_PL", 1,
             PlayerIo(FALSE, FALSE, FALSE, FALSE, TRUE), c) :
           c \in { Cmds(st, 0, FALSE) : st \in GcStatuses } }
  \cup { Hev("HDMV_EVENT_PLAY_PL", 1, NoIo, NoCmds) : 
           x \in IF b.hdmv_num_invalid_pl < MaxInvalidPl THEN {1} ELSE {} }
  \cup { Hev("HDMV_EVENT_TITLE", 1, io, NoCmds) : io \in TitleIos }

VmRuns(b) ==
  { [fault |-> TRUE, events |-> << >>, running |-> FALSE,
     uo_mask |-> EMPTY_UO_MASK] }
  \cup { [fault |-> FALSE, events |-> <<e>>, running |-> r,
          uo_mask |-> EMPTY_UO_MASK] :
           e \in { x \in VmEvents(b) : x.event # "HDMV_EVENT_TITLE" },
           r \in BOOLEAN }
  \cup { [fault |-> FALSE, events |-> <<e>>,
          running |-> e.io.found /\ ~e.io.bdj /\ e.io.running,
          uo_mask |-> EMPTY_UO_MASK] :
           e \in { x \in VmEvents(b) : x.event = "HDMV_EVENT_TITLE" } }
  \cup { [fault |-> FALSE,
          events |-> << Hev("HDMV_EVENT_STILL", 1, NoIo, NoCmds),
                        Hev("HDMV_EVENT_STILL", 2, NoIo, NoCmds) >>,
          running |-> r, uo_mask |-> EMPTY_UO_MASK] : r \in BOOLEAN }

\* found: for bd_play_title, whether the title asked for is in the index.
Idle(op, val) == [op |-> op, val |-> val, pc |-> "idle", found |-> FALSE]

\* r: the object and the frame a step of bd_read_ext leaves.
Returns(r) ==
  /\ bd' = r.b
  /\ ret' = r.fr

InitPlayer ==
  /\ bd = InitBd
  /\ ret = Idle("init", 0)
  /\ hist = InitHist

\* A title started by the application ends the faulted state.
Started(h, r) == IF r.ret = 1 THEN [h EXCEPT !.faulted = FALSE] ELSE h

Play ==
  /\ ret.pc = "idle"
  /\ \E io \in TitleIos :
       LET r == bd_play(Enter(bd), io) IN
       /\ bd' = r.b
       /\ ret' = Idle("play", r.ret)
       /\ hist' = Started(hist, r)

\* First Play is started by bd_play; the application asks for title 1.
PlayTitle ==
  /\ ret.pc = "idle"
  /\ \E io \in TitleIos :
       LET r == _try_play_title(Enter(bd), 1, io) IN
       /\ bd' = r.b
       /\ ret' = [Idle("play_title", r.ret) EXCEPT !.found = io.found]
       /\ hist' = Started(hist, r)

RegisterOverlay ==
  /\ ret.pc = "idle"
  /\ \E func \in BOOLEAN :
       /\ bd' = bd_register_overlay_proc(Enter(bd), func)
       /\ ret' = Idle("register_overlay", 0)
       /\ hist' = hist

GetEvent ==
  /\ ret.pc = "idle"
  /\ LET r == bd_get_event(Enter(bd)) IN
       /\ bd' = r.b
       /\ ret' = [event |-> r.ev] @@ Idle("get_event", r.ret)
       /\ hist' = hist

ReadExtBegin ==
  /\ ret.pc = "idle"
  /\ \E len \in {0, UnitLen} :
       /\ Returns(_read_ext_begin(Enter(bd), len))
       /\ hist' = hist

ReadExtLoop ==
  /\ ret.pc = "loop"
  /\ \E vm \in VmRuns(bd) :
       /\ Returns(_read_ext_loop(bd, ret, vm))
       /\ hist' = [hist EXCEPT !.faulted = @ \/ ret'.fault]

ReadExtTail ==
  /\ ret.pc = "tail"
  /\ \E c \in IF ret.hdmv /\ "GC_STATUS_ANIMATE" \in bd.gc_status
              THEN PlayerCmds ELSE {NoCmds},
        running \in BOOLEAN :
       /\ Returns(_read_ext_tail(bd, ret,
                                 [cmds |-> c, running |-> running]))
       /\ hist' = hist

Next ==
  \/ Play \/ PlayTitle \/ RegisterOverlay \/ GetEvent
  \/ ReadExtBegin \/ ReadExtLoop \/ ReadExtTail

Spec == InitPlayer /\ [][Next]_vars

----------------------------------------------------------------------------
(* Properties of bd_read_ext, checked under Spec *)

ErrorHdmv == Ev("BD_EVENT_ERROR", BD_ERROR_HDMV)

\* C7: when an event is pending as bd_read_ext is called, the call
\* returns 0 with that event (the oldest one) and does nothing else: it
\* does not reach the VM loop, the stream, the title and menu state and
\* the masks are as before, no event is queued and none is sent to BD-J.
PendingEventEndsRead ==
  [][ (/\ ret.pc = "idle"
       /\ ret'.op = "read_ext"
       /\ bd.event_queue.alloc
       /\ bd.event_queue.ev # << >>)
      => /\ ret'.pc = "idle"
         /\ ret'.val = 0
         /\ ret'.event = Head(bd.event_queue.ev)
         /\ ret'.loops = 0 /\ ~ret'.read /\ ~ret'.fault
         /\ bd'.event_queue.ev = Tail(bd.event_queue.ev)
         /\ bd'.queued = << >> /\ bd'.bdj_sent = << >>
         /\ bd'.st0 = bd.st0
         /\ bd'.title = bd.title /\ bd'.title_type = bd.title_type
         /\ bd'.hdmv_suspended = bd.hdmv_suspended
         /\ bd'.gc_status = bd.gc_status
         /\ bd'.gc_uo_mask = bd.gc_uo_mask /\ bd'.uo_mask = bd.uo_mask
         /\ bd'.end_of_playlist = bd.end_of_playlist ]_vars

\* A call that found an event waiting in an HDMV title whose VM was ready
\* to run, with a playlist open.
PendingEventReturned ==
  /\ ret.op = "read_ext" /\ ret.pending /\ ret.len > 0
  /\ bd.title_type = "title_hdmv" /\ bd.hdmv_suspended = 0
  /\ bd.title /\ bd.st0.clip # NoClip

\* C8 (as amended): in a call that began in an HDMV title the VM loop is
\* left only with hdmv_suspended set, and when payload is read
\* hdmv_suspended is set unless the GC_CTRL_NOP run behind the loop handed
\* navigation commands to the VM.
ReadAfterVmBurst ==
  (ret.op = "read_ext" /\ ret.hdmv)
    => /\ ret.pc = "tail" => bd.hdmv_suspended = 1
       /\ ret.read => (ret.susp_at_read = 1 \/ ret.nop_cmds)

\* Payload bytes read in an HDMV title after its VM suspended.
PayloadReadInHdmvTitle ==
  /\ ret.op = "read_ext" /\ ret.hdmv /\ ret.read /\ ret.val = UnitLen
  /\ ret.susp_at_read = 1
  /\ bd.title_type = "title_hdmv"

\* C8 as stated: whenever payload is read in an HDMV title,
\* hdmv_suspended is set.
ReadOnlyWhenSuspended ==
  (ret.op = "read_ext" /\ ret.hdmv /\ ret.read) => ret.susp_at_read = 1

FaultReportedOnce ==
  /\ (ret.op = "read_ext" /\ ret.fault)
       => /\ ret.pc = "idle" /\ ret.val = -1
          /\ bd.title_type = "title_undef"
          /\ bd.queued = << ErrorHdmv >>
          /\ bd.event_queue.ev = << ErrorHdmv >>
  /\ hist.faulted
       => /\ bd.title_type = "title_undef"
          /\ Count(bd.event_queue.ev, ErrorHdmv) <= 1
          /\ (ret.op = "read_ext" /\ ~ret.fault)
               => /\ ret.pc # "loop" /\ ~ret.hdmv
                  /\ Count(bd.queued, ErrorHdmv) = 0

\* A read call made after the fault was delivered.
ReadAfterFault ==
  /\ hist.faulted
  /\ ret.op = "read_ext" /\ ~ret.fault /\ ~ret.pending
  /\ ret.pc = "idle" /\ ret.len > 0
  /\ bd.event_queue.ev = << >>

\* The event a returned call hands to the application.
HandedOut(r) ==
  IF r.op \in {"get_event", "read_ext"} /\ r.pc = "idle"
     /\ r.event # Ev("BD_EVENT_NONE", 0)
  THEN <<r.event>>
  ELSE <<>>

IsPrefix(a, b) == Len(a) <= Len(b) /\ SubSeq(b, 1, Len(a)) = a

\* C18: a step hands out at most the oldest event of the queue and only
\* when its call returns; what was queued before stays in its order in
\* front of what the step has queued; bd_get_event queues nothing, and a
\* call that finds the queue empty when it looks returns BD_EVENT_NONE.
EventsInOrder ==
  [][ /\ IsPrefix(bd.event_queue.ev, HandedOut(ret') \o bd'.event_queue.ev)
      /\ ret'.op = "get_event" =>
            /\ HandedOut(ret') \o bd'.event_queue.ev = bd.event_queue.ev
            /\ bd.event_queue.ev = <<>> =>
                  /\ ret'.event = Ev("BD_EVENT_NONE", 0) /\ ret'.val = 0
      /\ (ret'.op = "read_ext" /\ ret'.pc = "idle" /\ ret'.read) =>
            (HandedOut(ret') = <<>> => bd'.event_queue.ev = <<>>)
      /\ (ret.pc = "idle" /\ ret'.op = "read_ext"
            /\ bd.event_queue.ev = <<>>) =>
            HandedOut(ret') = <<>>
    ]_vars

\* A read that queued two events handed out the first and left the
\* second in the queue.
FirstOfTwoHandedOut ==
  /\ ret.op = "read_ext" /\ ret.pc = "idle" /\ ~ret.pending
  /\ ret.event # Ev("BD_EVENT_NONE", 0)
  /\ bd.event_queue.ev # <<>>
  /\ bd.event_queue.ev[1] # ret.event

\* C11 as stated: after a VM fault has ended the title, bd_play_title for
\* a title of the index, with title search not masked, returns 1 and
\* starts the title.
TitleAcceptedAfterFault ==
  [][ (/\ hist.faulted
       /\ ret.pc = "idle"
       /\ ret'.op = "play_title"
       /\ ret'.found
       /\ "title_search" \notin bd.uo_mask)
      => /\ ret'.val = 1
         /\ bd'.title_type # "title_undef" ]_vars

----------------------------------------------------------------------------
(* The UO mask and its contributors *)

\* An HDMV title started by bd_play, with the overlay callback
\* registered.
InitUO ==
  /\ bd = [InitBd EXCEPT !.event_queue.alloc = TRUE,
                         !.title_type = "title_hdmv",
                         !.hdmv_vm = TRUE,
                         !.graphics_controller = TRUE]
  /\ ret = [op |-> "init", pc |-> "idle", val |-> 0, old |-> 0]
  /\ hist = InitHist

TitleMasks == SUBSET {"menu_call", "title_search"}

BdjMasks == TitleMasks \cup { {"title_search", "other"} }

PlMasks == { {}, {"menu_call"}, {"title_search", "other"} }

PiMasks == { {}, {"other"} }

PageMasks == { {}, {"menu_call"}, {"other"}, {"title_search", "other"} }

\* The outcome of an operation of this part: old is the compressed mask
\* before it.
UoRet(op, val) ==
  [op |-> op, pc |-> "idle", val |-> val,
   old |-> _compressed_mask(bd.uo_mask)]

SetBdjUoMask ==
  \E mask \in BdjMasks :
    /\ bd' = bd_set_bdj_uo_mask(Enter(bd), mask)
    /\ ret' = UoRet("set_bdj_uo_mask", 0)
    /\ hist' = hist

RunHdmv ==
  \E mask \in TitleMasks :
    LET r == _run_hdmv(Enter(bd),
               [fault |-> FALSE,
                events |-> << Hev("HDMV_EVENT_NONE", 0, NoIo, NoCmds) >>,
                running |-> TRUE, uo_mask |-> mask])
    IN
    /\ bd' = r.b
    /\ ret' = UoRet("run_hdmv", r.ret)
    /\ hist' = hist

RunGc ==
  \E mask \in PageMasks :
    LET r == _run_gc(Enter(bd), "GC_CTRL_NOP",
                     [NoCmds EXCEPT !.page_uo_mask = mask])
    IN
    /\ bd' = r.b
    /\ ret' = UoRet("run_gc", r.ret)
    /\ hist' = hist

UoOpenPlaylist ==
  \E pl \in PlMasks, pi \in PiMasks, ok \in BOOLEAN :
    LET r == _open_playlist(Enter(bd),
               [OpenIo(1, "ok", pl, pi) EXCEPT !.pl_ok = ok])
    IN
    /\ bd' = r.b
    /\ ret' = UoRet("open_playlist", r.ret)
    /\ hist' = hist

\* The clip is opened again (next play item, seek to another clip).
UoOpenM2ts ==
  /\ bd.st0.clip # NoClip
  /\ \E pl \in PlMasks, pi \in PiMasks, o \in {"ok", "no_fp"} :
       LET r == _open_m2ts(Enter(bd), "st0", OpenIo(bd.st0.clip, o, pl, pi))
       IN
       /\ bd' = r.b
       /\ ret' = UoRet("open_m2ts", r.ret)
       /\ hist' = hist

UoGetEvent ==
  LET r == bd_get_event(Enter(bd)) IN
    /\ bd' = r.b
    /\ ret' = UoRet("get_event", r.ret)
    /\ hist' = hist

NextUO ==
  \/ SetBdjUoMask \/ RunHdmv \/ RunGc
  \/ UoOpenPlaylist \/ UoOpenM2ts \/ UoGetEvent

SpecUO == InitUO /\ [][NextUO]_vars

\* The parameter of BD_EVENT_UO_MASK_CHANGED: menu_call in bit 0,
\* title_search in bit 1.
MaskParam(mask) ==
  (IF "menu_call" \in mask THEN 1 ELSE 0)
    + (IF "title_search" \in mask THEN 2 ELSE 0)

IsUoEvent(e) == e.event = "BD_EVENT_UO_MASK_CHANGED"

UoEvents(seq) == SelectSeq(seq, IsUoEvent)

\* C6: bd->uo_mask holds exactly the bits set in title_uo_mask,
\* st0.uo_mask or gc_uo_mask; an operation that recomputes it once queues
\* one BD_EVENT_UO_MASK_CHANGED, with menu_call in bit 0 and title_search
\* in bit 1 of the parameter, when one of these two bits of the combined
\* mask changed, and none otherwise; opening a playlist, which recomputes
\* it on closing the old one and on opening the clip, queues such an event
\* whenever the two bits differ from before, and the last one queued
\* carries the bits of the new mask.
UoMaskCombined ==
  /\ \A bit \in UoBits :
       bit \in bd.uo_mask <=>
         (\/ bit \in bd.title_uo_mask
          \/ bit \in bd.st0.uo_mask
          \/ bit \in bd.gc_uo_mask)
  /\ ret.op \in {"set_bdj_uo_mask", "run_hdmv", "run_gc", "open_m2ts"}
       => UoEvents(bd.queued) =
            IF ret.old # MaskParam(bd.uo_mask)
            THEN << Ev("BD_EVENT_UO_MASK_CHANGED", MaskParam(bd.uo_mask)) >>
            ELSE << >>
  /\ ret.op = "open_playlist"
       => LET evs == UoEvents(bd.queued) IN
          /\ ret.old # MaskParam(bd.uo_mask) => evs # << >>
          /\ evs # << >> =>
               evs[Len(evs)].param = MaskParam(bd.uo_mask)

\* The menu page masked title search while the title masked the menu
\* call: the application was told of both bits.
UoMaskChangedByPage ==
  /\ ret.op = "run_gc"
  /\ bd.gc_uo_mask = {"title_search", "other"}
  /\ bd.title_uo_mask = {"menu_call"}
  /\ bd.uo_mask = {"menu_call", "title_search", "other"}
  /\ bd.queued = << Ev("BD_EVENT_UO_MASK_CHANGED", 3) >>

----------------------------------------------------------------------------
(* Clip preload (BD_PRELOAD) *)

\* buf: whether a buffer is attached.
InitPreload == [clip |-> NoClip, clip_size |-> 0, buf |-> FALSE]

_close_preload(p) == InitPreload

\* The BLURAY object with the local BD_STREAM st of _preload_m2ts, and
\* without it.
WithLocal(b, st) == [st |-> st] @@ b

WithoutLocal(b) == [k \in DOMAIN b \ {"st"} |-> b[k]]

\* The frame of a _preload_m2ts call: p is the BD_PRELOAD it works on, st
\* its local stream, off the offset buf - p->buf of the for loop.
\* Observations: alloc (realloc was called), reads (_read_block calls).
PreloadFrame(pc, val, p, st, off, alloc, reads) ==
  [ op |-> "preload", pc |-> pc, val |-> val, p |-> p, st |-> st,
    off |-> off, alloc |-> alloc, reads |-> reads ]

\* Behind _open_m2ts: o is its outcome, alloc_ok whether realloc gives a
\* buffer.
_preload_m2ts_opened(p, o, alloc_ok) ==
  IF o.ret = 0
  THEN [b |-> WithoutLocal(o.b),
        fr |-> PreloadFrame("idle", 0, p, o.b.st, 0, FALSE, 0)]
  ELSE IF ~alloc_ok
  THEN [b |-> WithoutLocal(o.b),
        fr |-> PreloadFrame("idle", 0, _close_preload(p),
                            _close_m2ts(o.b.st), 0, TRUE, 0)]
  ELSE [b |-> WithoutLocal(o.b),
        fr |-> PreloadFrame("read", 0,
                 [p EXCEPT !.clip_size = o.b.st.clip_size, !.buf = TRUE],
                 o.b.st, 0, TRUE, 0)]

\* _preload_m2ts up to the for loop.  The size test reads the clip_size
\* of the stream that memset has just cleared.
_preload_m2ts_begin(b, p, io, alloc_ok) ==
  IF [InitStream EXCEPT !.clip = p.clip].clip_size > PRELOAD_SIZE_LIMIT
  THEN [b |-> b,
        fr |-> PreloadFrame("idle", 0, p,
                            [InitStream EXCEPT !.clip = p.clip], 0,
                            FALSE, 0)]
  ELSE _preload_m2ts_opened(p,
         _open_m2ts(WithLocal(b, [InitStream EXCEPT !.clip = p.clip]),
                    "st", io),
         alloc_ok)

\* Behind _read_block: r is its outcome.
_preload_m2ts_unit(fr, r) ==
  IF r.ret <= 0
  THEN [b |-> WithoutLocal(r.b),
        fr |-> [fr EXCEPT !.pc = "idle", !.val = 0,
                          !.p = _close_preload(@),
                          !.st = _close_m2ts(r.b.st),
                          !.reads = @ + 1]]
  ELSE IF fr.off + UnitLen < fr.p.clip_size
  THEN [b |-> WithoutLocal(r.b),
        fr |-> [fr EXCEPT !.st = r.b.st, !.off = @ + UnitLen,
                          !.reads = @ + 1]]
  ELSE [b |-> WithoutLocal(r.b),
        fr |-> [fr EXCEPT !.pc = "idle", !.val = 1,
                          !.st = _close_m2ts(r.b.st),
                          !.off = @ + UnitLen, !.reads = @ + 1]]

\* One pass of for (; buf < end; buf += 6144), with the test that
\* follows it.
_preload_m2ts_read(b, fr, rd) ==
  _preload_m2ts_unit(fr, _read_block(WithLocal(b, fr.st), "st", rd))

\* Sizes of sub-path clip files: whole units, two units and a part of
\* one, and one unit more than the ceiling.
PreloadSizes ==
  { 2 * UnitLen, 3 * UnitLen, 2 * UnitLen + 100,
    PRELOAD_SIZE_LIMIT + UnitLen }

PreloadIos ==
  { [OpenIo(1, o, EMPTY_UO_MASK, EMPTY_UO_MASK) EXCEPT !.size = sz] :
      o \in {"ok", "no_fp"}, sz \in PreloadSizes }

PreloadReads ==
  { rd \in ReadInputs : rd.seek_ok /\ rd.filter_res = 0 }

\* A title is playing: the event queue exists.
InitPreloadSpec ==
  /\ bd = [InitBd EXCEPT !.event_queue.alloc = TRUE]
  /\ ret = PreloadFrame("idle", 0, InitPreload, InitStream, 0, FALSE, 0)
  /\ hist = InitHist

\* The caller resets the BD_PRELOAD and sets the clip to load.
PreloadBegin ==
  /\ ret.pc = "idle"
  /\ \E clip \in ClipIds, io \in PreloadIos, alloc_ok \in BOOLEAN :
       /\ Returns(_preload_m2ts_begin(Enter(bd),
                    [_close_preload(ret.p) EXCEPT !.clip = clip],
                    io, alloc_ok))
       /\ hist' = [hist EXCEPT !.size = io.size]

PreloadGetEvent ==
  /\ ret.pc = "idle"
  /\ bd.event_queue.ev # << >>
  /\ bd' = bd_get_event(Enter(bd)).b
  /\ UNCHANGED <<ret, hist>>

PreloadRead ==
  /\ ret.pc = "read"
  /\ ret.reads < MaxPreloadReads
  /\ \E rd \in PreloadReads :
       /\ Returns(_preload_m2ts_read(bd, ret, rd))
       /\ hist' = hist

NextPreload == PreloadBegin \/ PreloadRead \/ PreloadGetEvent

SpecPreload == InitPreloadSpec /\ [][NextPreload]_vars

\* C13 as stated: _preload_m2ts returns 0 for every clip whose file is
\* larger than PRELOAD_SIZE_LIMIT, without allocating a buffer and without
\* reading a unit.
PreloadCeiling ==
  (ret.op = "preload" /\ hist.size > PRELOAD_SIZE_LIMIT)
    => /\ ret.pc = "idle" /\ ret.val = 0
       /\ ~ret.alloc /\ ret.reads = 0
       /\ ~ret.p.buf

\* C14 as stated: when _preload_m2ts has returned 0 the BD_PRELOAD holds
\* no clip reference, no buffer and size 0, and the local stream is
\* closed.
PreloadRollback ==
  (ret.op = "preload" /\ ret.pc = "idle" /\ ret.val = 0)
    => /\ ret.p = InitPreload
       /\ ~ret.st.fp /\ ~ret.st.m2ts_filter

----------------------------------------------------------------------------
(* Byte positions and packet numbers *)

\* A 64-bit byte position is written as four 16-bit limbs, the most
\* significant first; a uint32_t has its two upper limbs 0.
Limb == 65536

U64(n) == <<0, 0, n \div Limb, n % Limb>>

\* The value of a number below 2^31.
Val(x) == x[3] * Limb + x[4]

RECURSIVE DivLimbs(_, _, _, _, _)
DivLimbs(x, d, i, rem, acc) ==
  IF i > Len(x)
  THEN acc
  ELSE DivLimbs(x, d, i + 1, (rem * Limb + x[i]) % d,
                Append(acc, (rem * Limb + x[i]) \div d))

\* x / d for a divisor below 2^15.
DivSmall(x, d) == DivLimbs(x, d, 1, 0, <<>>)

RECURSIVE MulLimbs(_, _, _, _, _)
MulLimbs(x, m, i, carry, acc) ==
  IF i = 0
  THEN acc
  ELSE MulLimbs(x, m, i - 1, (x[i] * m + carry) \div Limb,
                <<(x[i] * m + carry) % Limb>> \o acc)

\* (uint64_t)x * m for a factor below 2^15.
MulSmall(x, m) == MulLimbs(x, m, Len(x), 0, <<>>)

RECURSIVE LessFrom(_, _, _)
LessFrom(x, y, i) ==
  /\ i <= Len(x)
  /\ \/ x[i] < y[i]
     \/ x[i] = y[i] /\ LessFrom(x, y, i + 1)

Less(x, y) == LessFrom(x, y, 1)

\* The cast to uint32_t.
U32(x) == <<0, 0, x[3], x[4]>>

\* Faulty variant of SPN: the shifted position is divided by 2.
SPN_half(pos) == DivSmall(U32(DivSmall(pos, 64)), 2)

SPN(pos) == DivSmall(U32(DivSmall(pos, 64)), 3)

----------------------------------------------------------------------------
(* Seeking in the title *)

\* bd->title->packets
TitlePackets ==
  ClipTable[Len(ClipTable)].title_pkt
    + ClipTable[Len(ClipTable)].end_pkt
    - ClipTable[Len(ClipTable)].start_pkt

\* The clip that holds packet pkt of the title.
ClipOfPkt(pkt) ==
  CHOOSE c \in ClipIds :
    /\ ClipTable[c].title_pkt <= pkt
    /\ \/ c = Len(ClipTable)
       \/ pkt < ClipTable[c + 1].title_pkt

\* The nearest entry point of the clip at or before clip packet pkt.
EntryPoint(c, pkt) ==
  CHOOSE e \in ClipTable[c].ep :
    /\ e <= pkt
    /\ \A f \in ClipTable[c].ep : f <= pkt => f <= e

nav_packet_found(c, clip_pkt) ==
  [ clip |-> c, clip_pkt |-> clip_pkt,
    out_pkt |-> ClipTable[c].title_pkt + clip_pkt
                  - ClipTable[c].start_pkt ]

nav_packet_in(c, pkt) ==
  nav_packet_found(c,
    EntryPoint(c, pkt - ClipTable[c].title_pkt + ClipTable[c].start_pkt))

nav_packet_search(pkt) == nav_packet_in(ClipOfPkt(pkt), pkt)

\* A pending seamless angle change is executed: the title takes the angle
\* asked for when it has it, PSR_ANGLE_NUMBER follows and the clip file is
\* closed, to be opened again by the seek.  Without the angle state no
\* change is pending.
_change_angle(b) ==
  IF "seamless_angle_change" \in DOMAIN b /\ b.seamless_angle_change = 1
  THEN LET angle == IF b.request_angle \in {0, 1} THEN b.request_angle
                    ELSE b.title_angle
       IN  bd_psr_write([b EXCEPT !.title_angle = angle,
                                  !.seamless_angle_change = 0,
                                  !.st0 = _close_m2ts(@)],
                        "PSR_ANGLE_NUMBER", angle + 1)
  ELSE b

\* The title position follows the stream when the stream could be placed.
_seek_internal_done(r, title_pkt) ==
  IF r.ret >= 0
  THEN [r.b EXCEPT !.s_pos = title_pkt * PktLen]
  ELSE r.b

_seek_internal(b, nav, io) ==
  _seek_internal_done(_seek_stream(b, "st0", nav.clip, nav.clip_pkt, io),
                      nav.out_pkt)

bd_seek(b, pos, io) ==
  IF b.title /\ Less(pos, MulSmall(U64(TitlePackets), PktLen))
  THEN _seek_internal(_change_angle(b), nav_packet_search(Val(SPN(pos))),
                      io)
  ELSE b

----------------------------------------------------------------------------
(* Seek operations on an open title *)

LimbSamples == {0, 1, 21846, Limb - 1}

\* Packet numbers and byte positions up to the ends of their ranges.
SpnPackets == { <<0, 0, a, b>> : a, b \in LimbSamples }

SpnPositions ==
  { <<a, b, c, d>> : a, b, c \in LimbSamples \ {1},
                     d \in LimbSamples \cup {PktLen - 1, PktLen} }

\* Byte positions in the title, at and between its entry points, and
\* behind its end.
SeekPositions ==
  { U64(p * PktLen + d) :
      p \in {0, 22, 23, 58, 59, 98, 99, 100, 258, 259,
             TitlePackets - 1, TitlePackets},
      d \in {0, 1, PktLen - 1} }

SeekRet(op, val, pos, nav) ==
  [op |-> op, val |-> val, pos |-> pos, nav |-> nav]

NoNav == [clip |-> NoClip, clip_pkt |-> 0, out_pkt |-> 0]

InitSeek ==
  /\ bd = InitBd
  /\ ret = SeekRet("init", 0, U64(0), NoNav)
  /\ hist = InitHist

SeekOpenPlaylist ==
  \E io \in StreamOpenInputs(1) :
    LET r == _open_playlist(Enter(bd), io) IN
    /\ bd' = [r.b EXCEPT !.s_pos = 0]
    /\ ret' = SeekRet("open", r.ret, U64(0), NoNav)
    /\ UNCHANGED hist

\* SPN on its own, before a playlist is opened.
SpnOfPacket ==
  /\ ~bd.title
  /\ \E p \in SpnPackets :
    /\ ret' = SeekRet("spn_pkt", SPN(MulSmall(p, PktLen)), p, NoNav)
    /\ UNCHANGED <<bd, hist>>

SpnOfPosition ==
  /\ ~bd.title
  /\ \E pos \in SpnPositions :
    /\ ret' = SeekRet("spn", SPN(pos), pos, NoNav)
    /\ UNCHANGED <<bd, hist>>

BdSeek ==
  \E pos \in SeekPositions, o \in {"ok", "no_fp"} :
    /\ bd' = bd_seek(Enter(bd), pos,
                     OpenIo(1, o, EMPTY_UO_MASK, EMPTY_UO_MASK))
    /\ ret' = SeekRet("seek", bd'.s_pos, pos,
                      IF bd.title
                         /\ Less(pos, MulSmall(U64(TitlePackets), PktLen))
                      THEN nav_packet_search(Val(SPN(pos)))
                      ELSE NoNav)
    /\ UNCHANGED hist

NextSeek == SeekOpenPlaylist \/ SpnOfPacket \/ SpnOfPosition \/ BdSeek

SpecSeek == InitSeek /\ [][NextSeek]_vars

----------------------------------------------------------------------------
(* Properties of seeking, checked under SpecSeek *)

\* C16 as stated: SPN(p * 192) = p for every 32-bit packet number p, and
\* SPN(b) = floor(b / 192) for every 64-bit byte position b.
SpnExact ==
  /\ ret.op = "spn_pkt" => ret.val = ret.pos
  /\ ret.op = "spn" => ret.val = DivSmall(ret.pos, PktLen)

\* C15: for a byte position below the size of the open title, bd_seek
\* finds a clip and a packet of it such that the title packet found is at
\* or before the packet of the position and the clip packet lies between
\* the first and the last packet of the clip; a stream that could be
\* placed stands on that packet and the title position returned is not
\* behind the position asked for.
SeekAtOrBefore ==
  (ret.op = "seek" /\ ret.nav.clip # NoClip)
    => /\ ret.nav.out_pkt <= Val(DivSmall(ret.pos, PktLen))
       /\ ret.nav.clip_pkt >= ClipTable[ret.nav.clip].start_pkt
       /\ ret.nav.clip_pkt <= ClipTable[ret.nav.clip].end_pkt
       /\ ret.nav.out_pkt >= ClipTable[ret.nav.clip].title_pkt
       /\ bd.st0.fp =>
            /\ bd.st0.clip = ret.nav.clip
            /\ bd.st0.clip_pos = ret.nav.clip_pkt * PktLen
            /\ bd.s_pos = ret.nav.out_pkt * PktLen
            /\ ret.val = bd.s_pos
            /\ ~Less(ret.pos, U64(ret.val))

\* A seek into the second clip that lands on the entry point before the
\* packet asked for.
SeekBeforeRequestedPacket ==
  /\ ret.op = "seek" /\ ret.nav.clip = 2
  /\ bd.st0.fp /\ bd.st0.clip = 2
  /\ ret.nav.out_pkt < Val(DivSmall(ret.pos, PktLen))
  /\ ret.val = ret.nav.out_pkt * PktLen

----------------------------------------------------------------------------
(* Player status registers *)

\* A 32-bit register value is written as the set of its 1 bits.
Word == 0..31

\* The bits of a number below 2^31.
Bits(n) == { i \in 0..30 : (n \div 2^i) % 2 = 1 }

\* 0x80000fff and 0x80000000
StreamMask == {31} \cup 0..11
DecodeMask == {31}

\* Only the bits of the mask are replaced.
bd_psr_write_bits(regs, reg, val, mask) ==
  [regs EXCEPT ![reg] = (@ \ mask) \cup (val \cap mask)]

\* Faulty variant of StreamByLang: the last stream of the language.
StreamByLang_last(streams, lang) ==
  IF \E i \in DOMAIN streams : Bits(streams[i]) = lang
  THEN CHOOSE i \in DOMAIN streams :
         /\ Bits(streams[i]) = lang
         /\ \A j \in DOMAIN streams : Bits(streams[j]) = lang => j <= i
  ELSE 0

\* The stream with the preferred language, 0 when there is none.
StreamByLang(streams, lang) ==
  IF \E i \in DOMAIN streams : Bits(streams[i]) = lang
  THEN CHOOSE i \in DOMAIN streams :
         /\ Bits(streams[i]) = lang
         /\ \A j \in DOMAIN streams : Bits(streams[j]) = lang => i <= j
  ELSE 0

\* stream_idx is counted from 1 here.  The flag is dropped when the
\* language was not found or is the blacklisted one.
_update_stream_psr_by_lang_at(regs, psr_stream, enable_flag, streams, blacklist, idx) ==
  bd_psr_write_bits(regs, psr_stream,
    Bits(IF idx = 0 THEN 1 ELSE idx)
      \cup (IF \/ idx = 0
               \/ /\ blacklist # {}
                  /\ blacklist = Bits(streams[IF idx = 0 THEN 1 ELSE idx])
            THEN {} ELSE enable_flag),
    StreamMask)

_update_stream_psr_by_lang(regs, psr_lang, psr_stream, enable_flag, streams, blacklist) ==
  _update_stream_psr_by_lang_at(regs, psr_stream, enable_flag, streams,
                                blacklist,
                                StreamByLang(streams, regs[psr_lang]))

\* Faulty variant of bd_set_player_setting: the whole register is written.
bd_set_player_setting_whole(b, idx, value) ==
  IF idx = "DECODE_PG"
  THEN [b EXCEPT !.decode_pg = value # {},
                 !.regs = bd_psr_write_bits(@, "PSR_PG_STREAM",
                            IF value # {} THEN {31} ELSE {}, Word)]
  ELSE [b EXCEPT !.regs[idx] = value]

\* idx: DECODE_PG or the register of a setting that is written whole.
bd_set_player_setting(b, idx, value) ==
  IF idx = "DECODE_PG"
  THEN [b EXCEPT !.decode_pg = value # {},
                 !.regs = bd_psr_write_bits(@, "PSR_PG_STREAM",
                            IF value # {} THEN {31} ELSE {}, DecodeMask)]
  ELSE [b EXCEPT !.regs[idx] = value]

----------------------------------------------------------------------------
(* Register operations *)

\* Language codes and the streams of a play item.
Langs == {1, 2}
StreamLists == { <<1>>, <<2, 1>> }

PsrValues == { {}, {0, 1}, {12, 31}, Word }
PsrMasks == { 0..11, Word }

PsrRet(op, reg, old, val, mask) ==
  [op |-> op, reg |-> reg, old |-> old, val |-> val, mask |-> mask]

InitPsr ==
  /\ bd = [ regs |-> [ PSR_PG_STREAM |-> {0, 1, 2, 3, 4, 5, 6, 7, 8, 9,
                                          10, 11},
                       PSR_PRIMARY_AUDIO_ID |-> {0, 1, 2, 3, 4, 5, 6, 7},
                       PSR_AUDIO_LANG |-> Word,
                       PSR_PG_AND_SUB_LANG |-> Word ],
            decode_pg |-> FALSE ] @@ InitBd
  /\ ret = PsrRet("init", "PSR_PG_STREAM", {}, {}, {})
  /\ hist = InitHist

PsrWriteBits ==
  \E reg \in {"PSR_PG_STREAM"}, val \in PsrValues, mask \in PsrMasks :
    /\ bd' = [bd EXCEPT !.regs = bd_psr_write_bits(@, reg, val, mask)]
    /\ ret' = PsrRet("write_bits", reg, bd.regs[reg], val, mask)
    /\ UNCHANGED hist

SetPlayerSetting ==
  \/ \E value \in {{}, {0}, {1}} :
       /\ bd' = bd_set_player_setting(bd, "DECODE_PG", value)
       /\ ret' = PsrRet("set_decode_pg", "PSR_PG_STREAM",
                        bd.regs.PSR_PG_STREAM, value, DecodeMask)
       /\ UNCHANGED hist
  \/ \E idx \in {"PSR_AUDIO_LANG", "PSR_PG_AND_SUB_LANG"}, l \in Langs :
       /\ bd' = bd_set_player_setting(bd, idx, Bits(l))
       /\ ret' = PsrRet("set_lang", idx, bd.regs[idx], Bits(l), Word)
       /\ UNCHANGED hist

\* The calls _update_clip_psrs makes for the audio and the PG stream.
UpdateStreamPsrByLang ==
  \E streams \in StreamLists, blacklist \in {{}} \cup {Bits(l) : l \in Langs} :
    \/ /\ bd' = [bd EXCEPT !.regs =
                   _update_stream_psr_by_lang(@, "PSR_AUDIO_LANG",
                     "PSR_PRIMARY_AUDIO_ID", {}, streams, {})]
       /\ ret' = PsrRet("stream_by_lang", "PSR_PRIMARY_AUDIO_ID",
                        bd.regs.PSR_PRIMARY_AUDIO_ID, {}, StreamMask)
       /\ UNCHANGED hist
    \/ /\ bd' = [bd EXCEPT !.regs =
                   _update_stream_psr_by_lang(@, "PSR_PG_AND_SUB_LANG",
                     "PSR_PG_STREAM", {31}, streams, blacklist)]
       /\ ret' = PsrRet("stream_by_lang", "PSR_PG_STREAM",
                        bd.regs.PSR_PG_STREAM, {31}, StreamMask)
       /\ UNCHANGED hist

NextPsr == PsrWriteBits \/ SetPlayerSetting \/ UpdateStreamPsrByLang

SpecPsr == InitPsr /\ [][NextPsr]_vars

----------------------------------------------------------------------------
(* Properties of the register writes, checked under SpecPsr *)

\* C17: a write with a mask stores the bits of the value inside the mask
\* and the old bits outside it; bd_set_player_setting(DECODE_PG) changes
\* at most bit 31 of PSR_PG_STREAM, and the selection of a stream by
\* language changes at most the bits 0x80000fff of the stream register.
\* No other register changes.
MaskedWrite ==
  [][ /\ ret'.op = "write_bits" =>
           \A i \in Word :
             i \in bd'.regs[ret'.reg]
               <=> IF i \in ret'.mask THEN i \in ret'.val
                                      ELSE i \in bd.regs[ret'.reg]
      /\ ret'.op = "set_decode_pg" =>
           /\ \A i \in Word \ {31} :
                i \in bd'.regs.PSR_PG_STREAM <=> i \in bd.regs.PSR_PG_STREAM
           /\ 31 \in bd'.regs.PSR_PG_STREAM <=> ret'.val # {}
      /\ ret'.op = "stream_by_lang" =>
           \A i \in Word \ StreamMask :
             i \in bd'.regs[ret'.reg] <=> i \in bd.regs[ret'.reg]
      /\ ret'.op \in {"write_bits", "set_decode_pg", "stream_by_lang"} =>
           \A r \in DOMAIN bd.regs \ {ret'.reg} : bd'.regs[r] = bd.regs[r]
    ]_vars

\* PG decoding was switched on while a PG stream was selected: bit 31 is
\* set and the stream number is kept.
DecodePgKeepsStream ==
  /\ ret.op = "set_decode_pg" /\ ret.val # {}
  /\ ret.old = {0, 1}
  /\ bd.regs.PSR_PG_STREAM = {0, 1, 31}

----------------------------------------------------------------------------
(* Public operations called from two threads *)

Threads == {1, 2}

\* The operations that take bd->mutex.
LockingOps == {"bd_play", "bd_select_title"}

ThreadOps == LockingOps \cup {"bd_get_event", "bd_set_bdj_uo_mask"}

\* pc: "check" (the title index test of bd_select_title), "lock" (at
\* bd_mutex_lock), "body" (at the statements that read and write the
\* player), "unlock" (at bd_mutex_unlock), "idle" (returned).
ThreadFrame(op, pc, val) == [op |-> op, pc |-> pc, val |-> val]

\* bd_play and bd_select_title begin with bd_mutex_lock or, before it,
\* the index test; the other two have no such call.
FirstPc(op) ==
  IF op = "bd_play" THEN "lock"
  ELSE IF op = "bd_select_title" THEN "check"
  ELSE "body"

\* The statements of an operation between its lock and its unlock, or
\* all of them where it has neither.
ThreadOp(b, op, io, mask) ==
  IF op = "bd_play" THEN bd_play(b, io)
  ELSE IF op = "bd_select_title" THEN _open_playlist(b, io)
  ELSE IF op = "bd_get_event"
  THEN [b |-> bd_get_event(b).b, ret |-> bd_get_event(b).ret]
  ELSE [b |-> bd_set_bdj_uo_mask(b, mask), ret |-> 0]

InitThreads ==
  /\ bd = [mutex |-> 0] @@ InitBd
  /\ ret = [t \in Threads |-> ThreadFrame("none", "idle", 0)]
  /\ hist = InitHist

ThreadCall(t) ==
  /\ ret[t].pc = "idle"
  /\ \E op \in ThreadOps :
       ret' = [ret EXCEPT ![t] = ThreadFrame(op, FirstPc(op), 0)]
  /\ UNCHANGED <<bd, hist>>

\* ok: the title list has been read and holds the index.
ThreadCheck(t) ==
  /\ ret[t].pc = "check"
  /\ \E ok \in BOOLEAN :
       ret' = [ret EXCEPT ![t].pc = IF ok THEN "lock" ELSE "idle"]
  /\ UNCHANGED <<bd, hist>>

ThreadLock(t) ==
  /\ ret[t].pc = "lock"
  /\ bd.mutex = 0
  /\ bd' = [bd EXCEPT !.mutex = t]
  /\ ret' = [ret EXCEPT ![t].pc = "body"]
  /\ UNCHANGED hist

ThreadBody(t) ==
  /\ ret[t].pc = "body"
  /\ \E io \in {PlayerIo(TRUE, FALSE, FALSE, TRUE, TRUE),
                PlayerIo(TRUE, TRUE, TRUE, FALSE, FALSE)},
        mask \in {{}, {"title_search"}} :
       LET r == ThreadOp(Enter(bd), ret[t].op, io, mask) IN
       /\ bd' = r.b
       /\ ret' = [ret EXCEPT ![t].val = r.ret,
                             ![t].pc = IF ret[t].op \in LockingOps
                                       THEN "unlock" ELSE "idle"]
  /\ UNCHANGED hist

ThreadUnlock(t) ==
  /\ ret[t].pc = "unlock"
  /\ bd' = [bd EXCEPT !.mutex = 0]
  /\ ret' = [ret EXCEPT ![t].pc = "idle"]
  /\ UNCHANGED hist

NextThreads ==
  \E t \in Threads :
    \/ ThreadCall(t) \/ ThreadCheck(t) \/ ThreadLock(t)
    \/ ThreadBody(t) \/ ThreadUnlock(t)

SpecThreads == InitThreads /\ [][NextThreads]_vars

----------------------------------------------------------------------------
(* Properties of the locking, checked under SpecThreads *)

\* C20 as stated: a thread that stands at a statement of a public
\* operation that reads or writes the player holds the mutex, so no two
\* threads stand at such statements at once.
MutexHeld ==
  /\ \A t \in Threads :
       ret[t].pc \in {"check", "body", "unlock"} => bd.mutex = t
  /\ \A t, u \in Threads :
       (t # u /\ ret[t].pc \in {"check", "body"})
         => ret[u].pc \notin {"check", "body"}

----------------------------------------------------------------------------
(* Title search and menu call *)

\* in_time and out_time of the clip of the play item, in 45 kHz ticks.
ClipTimes == [in_time |-> 10, out_time |-> 20]

_update_time_psr(b, time) ==
  IF ~b.title \/ b.st0.clip = NoClip
  THEN b
  ELSE IF time < ClipTimes.in_time
  THEN b
  ELSE IF time > ClipTimes.out_time
  THEN b
  ELSE bd_psr_write(b, "PSR_TIME", time)

\* clip_time: the time nav_clip_packet_search finds for the position.
_update_time_psr_from_stream(b, clip_time) ==
  IF /\ b.title /\ b.st0.clip # NoClip
     /\ clip_time >= ClipTimes.in_time /\ clip_time <= ClipTimes.out_time
  THEN _update_time_psr(b, clip_time)
  ELSE b

_set_scr(b, pts, clip_time) ==
  IF pts >= 0
  THEN _update_time_psr(b, pts \div 2)
  ELSE IF ~b.app_scr
  THEN _update_time_psr_from_stream(b, clip_time)
  ELSE b

bd_set_scr(b, pts, clip_time) ==
  _set_scr([b EXCEPT !.app_scr = TRUE], pts, clip_time)

\* hdmv_vm_suspend_pl: the VM stores the position to resume from.
hdmv_vm_suspend_pl(b) == [b EXCEPT !.vm_suspend_pl = @ + 1]

\* Faulty variant of _try_menu_call: the title_search bit decides.
_try_menu_call_by_title_search(b, pts, clip_time, io) ==
  LET b1 == _set_scr(b, pts, clip_time) IN
  IF b1.title_type = "title_undef"
  THEN [b |-> b1, ret |-> 0]
  ELSE IF "title_search" \in b1.uo_mask
  THEN [b |-> _bdj_event(b1, "BDJ_EVENT_UO_MASKED",
                         UO_MASK_MENU_CALL_INDEX),
        ret |-> 0]
  ELSE _play_title(IF b1.title_type = "title_hdmv"
                   THEN hdmv_vm_suspend_pl(b1) ELSE b1,
                   BLURAY_TITLE_TOP_MENU, io)

_try_menu_call(b, pts, clip_time, io) ==
  LET b1 == _set_scr(b, pts, clip_time) IN
  IF b1.title_type = "title_undef"
  THEN [b |-> b1, ret |-> 0]
  ELSE IF "menu_call" \in b1.uo_mask
  THEN [b |-> _bdj_event(b1, "BDJ_EVENT_UO_MASKED",
                         UO_MASK_MENU_CALL_INDEX),
        ret |-> 0]
  ELSE _play_title(IF b1.title_type = "title_hdmv"
                   THEN hdmv_vm_suspend_pl(b1) ELSE b1,
                   BLURAY_TITLE_TOP_MENU, io)

bd_menu_call(b, pts, clip_time, io) == _try_menu_call(b, pts, clip_time, io)

bd_play_title(b, title, clip_time, io) ==
  IF title = BLURAY_TITLE_TOP_MENU
  THEN bd_menu_call(b, -1, clip_time, io)
  ELSE _try_play_title(b, title, io)

bd_play_title_internal(b, title, io) == _play_title(b, title, io)

\* key: code (BD_VK_KEY), typed (BD_KEY_TYPED), flags (BD_VK_FLAGS # 0).
\* The result of _bdj_event is 0 when the BD-J side takes the key.
bd_user_input(b, pts, key, clip_time, io, cmds) ==
  IF key.code = "BD_VK_ROOT_MENU"
  THEN IF key.typed
       THEN bd_menu_call(b, pts, clip_time, io)
       ELSE [b |-> b, ret |-> 0]
  ELSE
    LET b1 == _set_scr(b, pts, clip_time) IN
    IF b1.title_type = "title_hdmv"
    THEN IF key.typed
         THEN _run_gc(b1, "GC_CTRL_VK_KEY", cmds)
         ELSE [b |-> b1, ret |-> 0]
    ELSE IF b1.title_type = "title_bdj"
    THEN [b |-> _bdj_event(b1, "BDJ_EVENT_VK_KEY",
                           [key EXCEPT !.typed = @ \/ ~key.flags]),
          ret |-> IF io.bdj_ok THEN 0 ELSE -1]
    ELSE [b |-> b1, ret |-> -1]

\* The object with the notes of the running operation (register writes,
\* calls of hdmv_vm_suspend_pl) and the application clock flag.
InitTitle ==
  /\ bd = [psr_written |-> <<>>, vm_suspend_pl |-> 0, app_scr |-> FALSE]
            @@ InitBd
  /\ ret = [op |-> "init", val |-> 0]
  /\ hist = InitHist

EnterTitle(b) == [Enter(b) EXCEPT !.psr_written = <<>>, !.vm_suspend_pl = 0]

\* The outcome of an operation: title the title asked for (-1: none),
\* menu whether it was a menu call, found and startable what the index
\* says of the title, undef and masked the title type and the combined
\* mask when the operation began.
TitleRet(op, r, title, menu, io) ==
  [ op |-> op, val |-> r.ret, title |-> title, menu |-> menu,
    found |-> io.found, startable |-> io.found /\ (io.bdj => io.bdj_ok),
    undef |-> bd.title_type = "title_undef",
    hdmv |-> bd.title_type = "title_hdmv",
    masked |-> bd.uo_mask ]

TitleNumbers == {BLURAY_TITLE_FIRST_PLAY, BLURAY_TITLE_TOP_MENU, 1}

Pts == {-1, 30, 50}

ClipTimeFound == {5, 15}

Keys ==
  { [code |-> c, typed |-> t, flags |-> t] :
      c \in {"BD_VK_ROOT_MENU", "BD_VK_ENTER"}, t \in BOOLEAN }
  \cup { [code |-> "BD_VK_ENTER", typed |-> FALSE, flags |-> TRUE] }

\* The event queue is not created (bd_get_event is not called), so
\* that no event is stored.
TitleOpenPlaylist ==
  \E ok \in BOOLEAN :
    LET r == _open_playlist(EnterTitle(bd),
               [OpenIo(1, "ok", EMPTY_UO_MASK, EMPTY_UO_MASK) EXCEPT
                  !.pl_ok = ok])
    IN
    /\ bd' = r.b
    /\ ret' = TitleRet("open_playlist", r, -1, FALSE, NoIo)
    /\ hist' = hist

TitleSetBdjUoMask ==
  \E mask \in TitleMasks :
    /\ bd' = bd_set_bdj_uo_mask(EnterTitle(bd), mask)
    /\ ret' = TitleRet("set_bdj_uo_mask", [ret |-> 0], -1, FALSE, NoIo)
    /\ hist' = hist

TitleSetScr ==
  \E pts \in Pts, t \in ClipTimeFound :
    /\ bd' = bd_set_scr(EnterTitle(bd), pts, t)
    /\ ret' = TitleRet("set_scr", [ret |-> 0], -1, FALSE, NoIo)
    /\ hist' = hist

PlayTitleOf ==
  \E title \in TitleNumbers, t \in ClipTimeFound, io \in TitleIos :
    LET r == bd_play_title(EnterTitle(bd), title, t, io) IN
    /\ bd' = r.b
    /\ ret' = TitleRet("play_title", r, title,
                       title = BLURAY_TITLE_TOP_MENU, io)
    /\ hist' = hist

PlayTitleInternal ==
  \E title \in TitleNumbers, io \in TitleIos :
    LET r == bd_play_title_internal(EnterTitle(bd), title, io) IN
    /\ bd' = r.b
    /\ ret' = TitleRet("play_title_internal", r, title, FALSE, io)
    /\ hist' = hist

MenuCall ==
  \E pts \in Pts, t \in ClipTimeFound, io \in TitleIos :
    LET r == bd_menu_call(EnterTitle(bd), pts, t, io) IN
    /\ bd' = r.b
    /\ ret' = TitleRet("menu_call", r, BLURAY_TITLE_TOP_MENU, TRUE, io)
    /\ hist' = hist

UserInput ==
  \E pts \in Pts, key \in Keys, t \in ClipTimeFound, io \in TitleIos :
    LET r    == bd_user_input(EnterTitle(bd), pts, key, t, io, NoCmds)
        menu == key.code = "BD_VK_ROOT_MENU" /\ key.typed
    IN
    /\ bd' = r.b
    /\ ret' = TitleRet("user_input", r,
                       IF menu THEN BLURAY_TITLE_TOP_MENU ELSE -1,
                       menu, io)
    /\ hist' = hist

NextTitle ==
  \/ TitleOpenPlaylist \/ TitleSetBdjUoMask \/ TitleSetScr
  \/ PlayTitleOf \/ PlayTitleInternal \/ MenuCall \/ UserInput

SpecTitle == InitTitle /\ [][NextTitle]_vars

IsTitleNumberWrite(w) == w.reg = "PSR_TITLE_NUMBER"

\* The operation started no title: no title number was written, the VM
\* was given no position to resume from, and the title type and the VM
\* state are those of before.
NoTitleStarted ==
  /\ SelectSeq(bd'.psr_written, IsTitleNumberWrite) = <<>>
  /\ bd'.vm_suspend_pl = 0
  /\ bd'.title_type = bd.title_type
  /\ bd'.hdmv_vm = bd.hdmv_vm
  /\ bd'.hdmv_suspended = bd.hdmv_suspended

\* C23: bd_play_title for a title other than the top menu returns 0 and
\* starts no title when title_search is set in the combined mask, and
\* when no title is active and the title is not First Play; it starts a
\* title only with title_search clear, while bd_play_title_internal
\* starts the title the index has whatever the mask says.
TitleSearchMasked ==
  [][ /\ (/\ ret'.op = "play_title"
          /\ ret'.title # BLURAY_TITLE_TOP_MENU
          /\ \/ "title_search" \in bd.uo_mask
             \/ /\ bd.title_type = "title_undef"
                /\ ret'.title # BLURAY_TITLE_FIRST_PLAY)
         => ret'.val = 0 /\ NoTitleStarted
      /\ (/\ ret'.op = "play_title"
          /\ ret'.title # BLURAY_TITLE_TOP_MENU
          /\ ret'.val = 1)
         => /\ "title_search" \notin bd.uo_mask
            /\ bd'.psr_written[Len(bd'.psr_written)]
                 = [reg |-> "PSR_TITLE_NUMBER", val |-> ret'.title]
      /\ (ret'.op = "play_title_internal" /\ ret'.startable)
         => /\ ret'.val = 1
            /\ bd'.psr_written
                 = <<[reg |-> "PSR_TITLE_NUMBER", val |-> ret'.title]>>
    ]_vars

\* Title 1 was asked for in a running title with title_search masked and
\* was refused; the BD-J side was told.
MaskedTitleRefused ==
  /\ ret.op = "play_title" /\ ret.title = 1 /\ ret.startable
  /\ ~ret.undef /\ "title_search" \in ret.masked
  /\ ret.val = 0
  /\ bd.bdj_sent = <<Ev("BDJ_EVENT_UO_MASKED", UO_MASK_TITLE_SEARCH_INDEX)>>

\* C24: a menu call (bd_menu_call, bd_play_title for the top menu, the
\* typed root menu key given to bd_user_input) returns 0 and starts no
\* title when no title is active or menu_call is set in the combined
\* mask; otherwise, whatever the title_search bit, it has the VM of an
\* HDMV title store the resume position and starts the top menu.
MenuCallGoverned ==
  [][ (ret'.op \in {"menu_call", "play_title", "user_input"} /\ ret'.menu)
      => /\ (bd.title_type = "title_undef" \/ "menu_call" \in bd.uo_mask)
              => ret'.val = 0 /\ NoTitleStarted
         /\ (bd.title_type # "title_undef" /\ "menu_call" \notin bd.uo_mask)
              => /\ ret'.val = IF ret'.startable THEN 1 ELSE 0
                 /\ bd'.vm_suspend_pl
                      = IF bd.title_type = "title_hdmv" THEN 1 ELSE 0
                 /\ ret'.found
                      => bd'.psr_written[Len(bd'.psr_written)]
                           = [reg |-> "PSR_TITLE_NUMBER",
                              val |-> BLURAY_TITLE_TOP_MENU]
    ]_vars

\* The root menu key started the top menu from an HDMV title while
\* title_search was masked.
MenuCalledWithTitleSearchMasked ==
  /\ ret.op = "user_input" /\ ret.menu /\ ret.hdmv
  /\ ret.masked = {"title_search"}
  /\ ret.val = 1 /\ bd.vm_suspend_pl = 1

----------------------------------------------------------------------------
(* Register events *)

\* BD_PSR_EVENT.  Register values are sets of bits, as in bd_psr_write_bits.
PsrEvent(ev_type, psr_idx, old_val, new_val) ==
  [ev_type |-> ev_type, psr_idx |-> psr_idx,
   old_val |-> old_val, new_val |-> new_val]

\* !!x, and x >> n
Flag(c) == IF c THEN {0} ELSE {}
ShiftRight(x, n) == { i - n : i \in { j \in x : j >= n } }

\* 0x8f00ff00, 0x400000ff and 0xffff
SecondaryVideoMask == {31} \cup 24..27 \cup 8..15
SecondaryAudioMask == {30} \cup 0..7
NoChapter == 0..15

\* case 103 (disc_event) reaches nothing the player keeps.
_process_psr_write_event(b, ev) ==
  CASE ev.psr_idx = "PSR_ANGLE_NUMBER" ->
         _queue_event(_bdj_event(b, "BDJ_EVENT_ANGLE", ev.new_val),
                      "BD_EVENT_ANGLE", ev.new_val)
    [] ev.psr_idx = "PSR_TITLE_NUMBER" ->
         _queue_event(b, "BD_EVENT_TITLE", ev.new_val)
    [] ev.psr_idx = "PSR_PLAYLIST" ->
         _queue_event(_bdj_event(b, "BDJ_EVENT_PLAYLIST", ev.new_val),
                      "BD_EVENT_PLAYLIST", ev.new_val)
    [] ev.psr_idx = "PSR_PLAYITEM" ->
         _queue_event(_bdj_event(b, "BDJ_EVENT_PLAYITEM", ev.new_val),
                      "BD_EVENT_PLAYITEM", ev.new_val)
    [] ev.psr_idx = "PSR_TIME" ->
         _bdj_event(b, "BDJ_EVENT_PTS", ev.new_val)
    [] ev.psr_idx = "PSR_102" ->
         _bdj_event(b, "BDJ_EVENT_PSR102", ev.new_val)
    [] OTHER -> b

\* The calls of one operation to the collaborators, in order.
Called(b, fn, arg) == [b EXCEPT !.calls = Append(@, [fn |-> fn, arg |-> arg])]

\* depths: the number of times the mutex was held when it was asked for.
bd_mutex_lock(b) ==
  [b EXCEPT !.mutex_depth = @ + 1, !.depths = Append(@, b.mutex_depth)]

bd_mutex_unlock(b) == [b EXCEPT !.mutex_depth = @ - 1]

\* The number a set of bits below 31 stands for.
RECURSIVE BitsValue(_)
BitsValue(x) ==
  IF x = {}
  THEN 0
  ELSE LET i == CHOOSE j \in x : TRUE IN 2^i + BitsValue(x \ {i})

\* b.stn_pg: the PG entries of the stream table of the current play item
\* (pid, stream_type, subpath_id).  sub_path_idx stays -1 for a stream of
\* the main path.
_find_pg_stream(b) ==
  LET pg_stream == BitsValue(b.regs.PSR_PG_STREAM \cap 0..11) IN
  IF pg_stream > 0 /\ pg_stream <= Len(b.stn_pg)
  THEN [ret |-> 1, pid |-> b.stn_pg[pg_stream].pid,
        sub_path_idx |-> IF b.stn_pg[pg_stream].stream_type = 2
                         THEN b.stn_pg[pg_stream].subpath_id
                         ELSE -1]
  ELSE [ret |-> 0, pid |-> 0, sub_path_idx |-> -1]

_init_pg_stream_found(b, f) ==
  IF f.sub_path_idx < 0 THEN [b EXCEPT !.st0.pg_pid = f.pid] ELSE b

\* Faulty variant of _init_pg_stream_pid: decode_pg is not looked at.
_init_pg_stream_pid_undecoded(b) ==
  LET b1 == [b EXCEPT !.st0.pg_pid = 0] IN
  IF ~b1.graphics_controller
  THEN b1
  ELSE IF ~b1.title
  THEN b1
  ELSE _init_pg_stream_found(b1, _find_pg_stream(b1))

_init_pg_stream_pid(b) ==
  LET b1 == [b EXCEPT !.st0.pg_pid = 0] IN
  IF ~b1.graphics_controller
  THEN b1
  ELSE IF ~b1.decode_pg \/ ~b1.title
  THEN b1
  ELSE _init_pg_stream_found(b1, _find_pg_stream(b1))

\* Where the PID of the PG stream is not part of the state, the call is
\* noted only.
_init_pg_stream(b) ==
  IF "pg_pid" \in DOMAIN b.st0
  THEN _init_pg_stream_pid(Called(b, "_init_pg_stream", 0))
  ELSE Called(b, "_init_pg_stream", 0)

\* case PSR_PG_STREAM of _process_psr_change_event.  No TextST sub path
\* is open.
_process_psr_change_pg(b, ev) ==
  LET b1 == _bdj_event(b, "BDJ_EVENT_SUBTITLE", ev.new_val)
      b2 == IF (ev.new_val \cap StreamMask) # (ev.old_val \cap StreamMask)
            THEN _queue_event(
                   _queue_event(b1, "BD_EVENT_PG_TEXTST",
                                Flag(31 \in ev.new_val)),
                   "BD_EVENT_PG_TEXTST_STREAM", ev.new_val \cap 0..11)
            ELSE b1
      b3 == bd_mutex_lock(b2)
      b4 == IF b3.st0.clip # NoClip THEN _init_pg_stream(b3) ELSE b3
  IN  bd_mutex_unlock(b4)

\* case PSR_SECONDARY_AUDIO_VIDEO of _process_psr_change_event
_process_psr_change_secondary(b, ev) ==
  LET nv == ev.new_val
      b1 == IF (nv \cap SecondaryVideoMask)
                 # (ev.old_val \cap SecondaryVideoMask)
            THEN _queue_event(
                   _queue_event(
                     _queue_event(b, "BD_EVENT_SECONDARY_VIDEO",
                                  Flag(31 \in nv)),
                     "BD_EVENT_SECONDARY_VIDEO_SIZE",
                     ShiftRight(nv, 24) \cap 0..3),
                   "BD_EVENT_SECONDARY_VIDEO_STREAM",
                   ShiftRight(nv \cap 8..15, 8))
            ELSE b
      b2 == IF (nv \cap SecondaryAudioMask)
                 # (ev.old_val \cap SecondaryAudioMask)
            THEN _queue_event(
                   _queue_event(b1, "BD_EVENT_SECONDARY_AUDIO",
                                Flag(30 \in nv)),
                   "BD_EVENT_SECONDARY_AUDIO_STREAM", nv \cap 0..7)
            ELSE b1
  IN  _bdj_event(b2, "BDJ_EVENT_SECONDARY_STREAM", nv)

\* Faulty variant of _process_psr_change_event: the chapter event is
\* queued for every value.
_process_psr_change_event_any_chapter(b, ev) ==
  LET b1 == _process_psr_write_event(b, ev) IN
  CASE ev.psr_idx = "PSR_CHAPTER" ->
         _queue_event(_bdj_event(b1, "BDJ_EVENT_CHAPTER", ev.new_val),
                      "BD_EVENT_CHAPTER", ev.new_val)
    [] ev.psr_idx = "PSR_IG_STREAM_ID" ->
         _queue_event(b1, "BD_EVENT_IG_STREAM", ev.new_val)
    [] ev.psr_idx = "PSR_PRIMARY_AUDIO_ID" ->
         _queue_event(_bdj_event(b1, "BDJ_EVENT_AUDIO_STREAM", ev.new_val),
                      "BD_EVENT_AUDIO_STREAM", ev.new_val)
    [] ev.psr_idx = "PSR_PG_STREAM" -> _process_psr_change_pg(b1, ev)
    [] ev.psr_idx = "PSR_SECONDARY_AUDIO_VIDEO" ->
         _process_psr_change_secondary(b1, ev)
    [] ev.psr_idx = "PSR_3D_STATUS" ->
         _queue_event(b1, "BD_EVENT_STEREOSCOPIC_STATUS",
                      ev.new_val \cap {0})
    [] OTHER -> b1

\* case PSR_TITLE_NUMBER (disc_event) reaches nothing the player keeps.
_process_psr_change_event(b, ev) ==
  LET b1 == _process_psr_write_event(b, ev) IN
  CASE ev.psr_idx = "PSR_CHAPTER" ->
         LET b2 == _bdj_event(b1, "BDJ_EVENT_CHAPTER", ev.new_val) IN
         IF ev.new_val # NoChapter
         THEN _queue_event(b2, "BD_EVENT_CHAPTER", ev.new_val)
         ELSE b2
    [] ev.psr_idx = "PSR_IG_STREAM_ID" ->
         _queue_event(b1, "BD_EVENT_IG_STREAM", ev.new_val)
    [] ev.psr_idx = "PSR_PRIMARY_AUDIO_ID" ->
         _queue_event(_bdj_event(b1, "BDJ_EVENT_AUDIO_STREAM", ev.new_val),
                      "BD_EVENT_AUDIO_STREAM", ev.new_val)
    [] ev.psr_idx = "PSR_PG_STREAM" -> _process_psr_change_pg(b1, ev)
    [] ev.psr_idx = "PSR_SECONDARY_AUDIO_VIDEO" ->
         _process_psr_change_secondary(b1, ev)
    [] ev.psr_idx = "PSR_3D_STATUS" ->
         _queue_event(b1, "BD_EVENT_STEREOSCOPIC_STATUS",
                      ev.new_val \cap {0})
    [] OTHER -> b1

\* The callback given to bd_psr_register_cb, for the events of a write.
_process_psr_event(b, ev) ==
  CASE ev.ev_type = "BD_PSR_WRITE" -> _process_psr_write_event(b, ev)
    [] ev.ev_type = "BD_PSR_CHANGE" -> _process_psr_change_event(b, ev)
    [] OTHER -> b

\* bd_psr_write on an object whose registers are part of the state: the
\* value is stored and the callback, registered along with the event
\* queue, is called with BD_PSR_CHANGE when the value differs from the
\* old one and with BD_PSR_WRITE when it does not.
bd_psr_write_cb(b, reg, val) ==
  LET b1 == [b EXCEPT !.regs[reg] = val] IN
  IF b.event_queue.alloc
  THEN _process_psr_event(b1,
         PsrEvent(IF b.regs[reg] = val
                  THEN "BD_PSR_WRITE" ELSE "BD_PSR_CHANGE",
                  reg, b.regs[reg], val))
  ELSE b1

----------------------------------------------------------------------------
(* One register write and the events it queues *)

EventRegs ==
  { "PSR_TITLE_NUMBER", "PSR_PLAYLIST", "PSR_PLAYITEM", "PSR_ANGLE_NUMBER",
    "PSR_CHAPTER", "PSR_IG_STREAM_ID", "PSR_PRIMARY_AUDIO_ID",
    "PSR_PG_STREAM", "PSR_SECONDARY_AUDIO_VIDEO", "PSR_3D_STATUS",
    "PSR_TIME" }

\* The values a register takes here: for PSR_PG_STREAM and
\* PSR_SECONDARY_AUDIO_VIDEO values that differ inside and outside the
\* bit fields of their events.
RegValues(reg) ==
  CASE reg = "PSR_CHAPTER" -> { Bits(1), Bits(2), NoChapter }
    [] reg = "PSR_PG_STREAM" -> { {0}, {0, 31}, {0, 12}, {1} }
    [] reg = "PSR_SECONDARY_AUDIO_VIDEO" ->
         { {}, {8}, {0, 30}, {16}, {8, 16, 25, 31} }
    [] reg = "PSR_3D_STATUS" -> { {}, {0}, {1} }
    [] OTHER -> { Bits(1), Bits(2) }

InitRegs == [reg \in EventRegs |-> {}]

\* The notes of the running operation and the register file.
EventBd(regs) ==
  [ regs |-> regs, decode_pg |-> FALSE, mutex_depth |-> 0,
    depths |-> <<>>, calls |-> <<>> ]
    @@ [InitBd EXCEPT !.event_queue.alloc = TRUE]

EnterEvent(b) == [Enter(b) EXCEPT !.depths = <<>>, !.calls = <<>>]

\* The event queue exists and the callback is registered (bd_get_event
\* has been called); one register holds one of its values.
InitPsrEvent ==
  /\ \E reg \in EventRegs : \E val \in RegValues(reg) :
       bd = EventBd([InitRegs EXCEPT ![reg] = val])
  /\ ret = [op |-> "init", val |-> 0]
  /\ hist = InitHist

PsrWrite ==
  /\ ret.op = "init"
  /\ \E reg \in EventRegs : \E val \in RegValues(reg) \cup {{}} :
       /\ bd' = bd_psr_write_cb(EnterEvent(bd), reg, val)
       /\ ret' = [op |-> "psr_write", val |-> 0, reg |-> reg,
                  old_val |-> bd.regs[reg], new_val |-> val]
       /\ hist' = hist

PsrGetEvent ==
  /\ ret.op # "init"
  /\ bd.event_queue.ev # <<>>
  /\ LET r == bd_get_event(bd) IN
       /\ bd' = r.b
       /\ ret' = [ret EXCEPT !.op = "get_event", !.val = r.ret]
       /\ hist' = hist

NextPsrEvent == PsrWrite \/ PsrGetEvent

SpecPsrEvent == InitPsrEvent /\ [][NextPsrEvent]_vars

EventsOnChange ==
  { "BD_EVENT_CHAPTER", "BD_EVENT_IG_STREAM", "BD_EVENT_AUDIO_STREAM",
    "BD_EVENT_PG_TEXTST", "BD_EVENT_PG_TEXTST_STREAM",
    "BD_EVENT_SECONDARY_VIDEO", "BD_EVENT_SECONDARY_VIDEO_SIZE",
    "BD_EVENT_SECONDARY_VIDEO_STREAM", "BD_EVENT_SECONDARY_AUDIO",
    "BD_EVENT_SECONDARY_AUDIO_STREAM", "BD_EVENT_STEREOSCOPIC_STATUS" }

EventNames(seq) == { seq[i].event : i \in DOMAIN seq }

\* The events a change of the register queues, by name.
ChangeEvents(reg, old, new) ==
  CASE reg = "PSR_CHAPTER" ->
         IF new = NoChapter THEN {} ELSE {"BD_EVENT_CHAPTER"}
    [] reg = "PSR_IG_STREAM_ID" -> {"BD_EVENT_IG_STREAM"}
    [] reg = "PSR_PRIMARY_AUDIO_ID" -> {"BD_EVENT_AUDIO_STREAM"}
    [] reg = "PSR_PG_STREAM" ->
         IF (new \cap StreamMask) # (old \cap StreamMask)
         THEN {"BD_EVENT_PG_TEXTST", "BD_EVENT_PG_TEXTST_STREAM"}
         ELSE {}
    [] reg = "PSR_SECONDARY_AUDIO_VIDEO" ->
         (IF (new \cap SecondaryVideoMask) # (old \cap SecondaryVideoMask)
          THEN {"BD_EVENT_SECONDARY_VIDEO", "BD_EVENT_SECONDARY_VIDEO_SIZE",
                "BD_EVENT_SECONDARY_VIDEO_STREAM"}
          ELSE {})
         \cup
         (IF (new \cap SecondaryAudioMask) # (old \cap SecondaryAudioMask)
          THEN {"BD_EVENT_SECONDARY_AUDIO",
                "BD_EVENT_SECONDARY_AUDIO_STREAM"}
          ELSE {})
    [] reg = "PSR_3D_STATUS" -> {"BD_EVENT_STEREOSCOPIC_STATUS"}
    [] OTHER -> {}

\* The event every write of the register queues, by name.
WriteEvents(reg) ==
  CASE reg = "PSR_TITLE_NUMBER" -> {"BD_EVENT_TITLE"}
    [] reg = "PSR_PLAYLIST" -> {"BD_EVENT_PLAYLIST"}
    [] reg = "PSR_PLAYITEM" -> {"BD_EVENT_PLAYITEM"}
    [] reg = "PSR_ANGLE_NUMBER" -> {"BD_EVENT_ANGLE"}
    [] OTHER -> {}

\* C29: a write that leaves the register as it was queues none of the
\* events CHAPTER, IG_STREAM, AUDIO_STREAM, PG_TEXTST, PG_TEXTST_STREAM,
\* SECONDARY_* and STEREOSCOPIC_STATUS; a write that changes it queues
\* those of its register (CHAPTER not for 0xffff, the PG and secondary
\* ones when their bit fields 0x80000fff, 0x8f00ff00, 0x400000ff
\* changed); TITLE, PLAYLIST, PLAYITEM and ANGLE are queued, once, by
\* every write of their register.
EventsOnlyOnChange ==
  ret.op = "psr_write" =>
    /\ ret.old_val = ret.new_val
         => EventNames(bd.queued) \cap EventsOnChange = {}
    /\ ret.old_val # ret.new_val
         => EventNames(bd.queued) \cap EventsOnChange
              = ChangeEvents(ret.reg, ret.old_val, ret.new_val)
    /\ EventNames(bd.queued) \ EventsOnChange = WriteEvents(ret.reg)
    /\ Len(bd.queued) = Cardinality(EventNames(bd.queued))

\* PSR_PG_STREAM was changed outside the bits 0x80000fff and no event was
\* queued.
PgChangedOutsideField ==
  /\ ret.op = "psr_write" /\ ret.reg = "PSR_PG_STREAM"
  /\ ret.old_val = {0} /\ ret.new_val = {0, 12}
  /\ bd.queued = <<>>
  /\ bd.bdj_sent = <<Ev("BDJ_EVENT_SUBTITLE", {0, 12})>>

----------------------------------------------------------------------------
(* Register restore and the operations that seek under the mutex *)

\* The number a small register value stands for, and x - 1 in 32 bits.
Num(x) == CHOOSE n \in 0..255 : Bits(n) = x
Minus1(x) == IF x = {} THEN Word ELSE Bits(Num(x) - 1)

\* nav_set_angle: the angle handed to the navigation of the open title.
nav_set_angle(b, angle) == Called(b, "nav_set_angle", angle)

\* The stream _update_stream_psr_by_lang selects, counted from 1.
SelectedStream(regs, psr_lang, streams) ==
  IF StreamByLang(streams, regs[psr_lang]) = 0
  THEN 1 ELSE StreamByLang(streams, regs[psr_lang])

\* _update_stream_psr_by_lang with the callback of the register it writes.
_update_stream_psr_cb(b, psr_lang, psr_stream, enable_flag, streams, blacklist) ==
  bd_psr_write_cb(b, psr_stream,
    _update_stream_psr_by_lang(b.regs, psr_lang, psr_stream, enable_flag,
                               streams, blacklist)[psr_stream])

\* The tail of _update_playlist_psrs.  stn: the audio and PG streams of
\* the play item; audio_lang is 0 when it has no audio stream.
_update_playlist_streams(b, stn) ==
  LET b1 == IF stn.audio # <<>>
            THEN _update_stream_psr_cb(b, "PSR_AUDIO_LANG",
                                       "PSR_PRIMARY_AUDIO_ID", {},
                                       stn.audio, {})
            ELSE b
      audio_lang ==
         IF stn.audio # <<>>
         THEN Bits(stn.audio[SelectedStream(b.regs, "PSR_AUDIO_LANG",
                                            stn.audio)])
         ELSE {}
  IN  IF stn.pg # <<>>
      THEN _update_stream_psr_cb(b1, "PSR_PG_AND_SUB_LANG", "PSR_PG_STREAM",
                                 {31}, stn.pg, audio_lang)
      ELSE b1

\* The title has just been opened: its angle is 0.
_update_playlist_psrs(b, playlist, stn) ==
  LET b1 == bd_psr_write_cb(b, "PSR_PLAYLIST", playlist)
      b2 == bd_psr_write_cb(b1, "PSR_ANGLE_NUMBER", Bits(1))
      b3 == bd_psr_write_cb(b2, "PSR_CHAPTER", NoChapter)
  IN  IF b3.st0.clip # NoClip /\ b3.title_type = "title_undef"
      THEN _update_playlist_streams(
             bd_psr_write_cb(b3, "PSR_PLAYITEM",
                             Bits(ClipTable[b3.st0.clip].ref)),
             stn)
      ELSE b3

\* io.psrs: the open writes the playlist registers.
bd_select_playlist(b, playlist, io) ==
  LET r == _open_playlist(Called(b, "bd_select_playlist", playlist), io) IN
  IF r.ret = 1 /\ io.psrs
  THEN _update_playlist_psrs(r.b, playlist, io.stn)
  ELSE r.b

\* Faulty variant of SeekLocked: the pending angle change is executed
\* before the target is looked at.
SeekLocked_angle_first(b, fn, arg, found, nav, io) ==
  LET b1 == _change_angle(bd_mutex_lock(Called(b, fn, arg))) IN
  bd_mutex_unlock(IF b1.title /\ found
                  THEN _seek_internal(b1, nav, io)
                  ELSE b1)

\* The seek of bd_seek_playitem, bd_seek_mark and bd_seek_time between
\* lock and unlock: found says whether the title has the target.
SeekLocked(b, fn, arg, found, nav, io) ==
  LET b1 == bd_mutex_lock(Called(b, fn, arg)) IN
  bd_mutex_unlock(IF b1.title /\ found
                  THEN _seek_internal(_change_angle(b1), nav, io)
                  ELSE b1)

bd_seek_playitem(b, clip_ref, io) ==
  SeekLocked(b, "bd_seek_playitem", clip_ref, clip_ref < Len(ClipTable),
             IF clip_ref < Len(ClipTable)
             THEN nav_packet_found(clip_ref + 1,
                                   ClipTable[clip_ref + 1].start_pkt)
             ELSE NoNav,
             io)

\* The title has one mark, at the second entry point of its last clip.
bd_seek_mark(b, mark, io) ==
  SeekLocked(b, "bd_seek_mark", mark, mark < 1,
             nav_packet_in(Len(ClipTable), ClipTable[Len(ClipTable)].title_pkt + 45),
             io)

\* A tick of the title is taken for a packet of it.
bd_seek_time(b, tick, io) ==
  SeekLocked(b, "bd_seek_time", tick, tick < TitlePackets,
             IF tick < TitlePackets THEN nav_packet_search(tick) ELSE NoNav,
             io)

bd_bdj_seek(b, playitem, playmark, time, io) ==
  LET b1 == bd_mutex_lock(b)
      b2 == IF playitem > 0 THEN bd_seek_playitem(b1, playitem, io) ELSE b1
      b3 == IF playmark >= 0 THEN bd_seek_mark(b2, playmark, io) ELSE b2
      b4 == IF time >= 0 THEN bd_seek_time(b3, time, io) ELSE b3
  IN  bd_mutex_unlock(b4)

\* The part of bd_set_player_setting for BLURAY_PLAYER_SETTING_DECODE_PG,
\* with the mutex and the callback of the register.
bd_set_decode_pg(b, value) ==
  LET b1 == bd_mutex_lock(b)
      b2 == bd_psr_write_cb([b1 EXCEPT !.decode_pg = value # {}],
              "PSR_PG_STREAM",
              bd_psr_write_bits(b1.regs, "PSR_PG_STREAM",
                                IF value # {} THEN {31} ELSE {},
                                DecodeMask).PSR_PG_STREAM)
  IN  bd_mutex_unlock(b2)

\* A tick of the clip is taken for a packet behind its first one.
_clip_seek_time(b, tick, io) ==
  IF ~b.title \/ b.st0.clip = NoClip
  THEN b
  ELSE IF tick >= ClipTimes.out_time
  THEN b
  ELSE _seek_internal(Called(b, "nav_clip_time_search", tick),
         nav_packet_found(b.st0.clip,
           EntryPoint(b.st0.clip, ClipTable[b.st0.clip].start_pkt + tick)),
         io)

_init_ig_stream(b) == Called(b, "_init_ig_stream", 0)

\* Faulty variant of _process_psr_restore_event: the angle is set from
\* the register before the playlist is selected.
_process_psr_restore_event_angle_first(b, ev, io) ==
  CASE ev.psr_idx = "PSR_TITLE_NUMBER" ->
         _queue_event(b, "BD_EVENT_TITLE", ev.new_val)
    [] ev.psr_idx = "PSR_PLAYLIST" ->
         bd_select_playlist(
           nav_set_angle(b, Minus1(b.regs.PSR_ANGLE_NUMBER)),
           ev.new_val, io)
    [] ev.psr_idx = "PSR_PLAYITEM" ->
         bd_seek_playitem(b, Num(ev.new_val), io)
    [] ev.psr_idx = "PSR_TIME" ->
         Called(_run_gc(_init_ig_stream(
                          _clip_seek_time(b, Num(ev.new_val), io)),
                        "GC_CTRL_INIT_MENU", io.cmds).b,
                "_run_gc", 0)
    [] OTHER -> b

_process_psr_restore_event(b, ev, io) ==
  CASE ev.psr_idx = "PSR_ANGLE_NUMBER" -> b
    [] ev.psr_idx = "PSR_TITLE_NUMBER" ->
         _queue_event(b, "BD_EVENT_TITLE", ev.new_val)
    [] ev.psr_idx = "PSR_CHAPTER" -> b
    [] ev.psr_idx = "PSR_PLAYLIST" ->
         LET b1 == bd_select_playlist(b, ev.new_val, io) IN
         nav_set_angle(b1, Minus1(b1.regs.PSR_ANGLE_NUMBER))
    [] ev.psr_idx = "PSR_PLAYITEM" ->
         bd_seek_playitem(b, Num(ev.new_val), io)
    [] ev.psr_idx = "PSR_TIME" ->
         Called(_run_gc(_init_ig_stream(
                          _clip_seek_time(b, Num(ev.new_val), io)),
                        "GC_CTRL_INIT_MENU", io.cmds).b,
                "_run_gc", 0)
    [] OTHER -> b

----------------------------------------------------------------------------
(* Restore events and seeks on a player with registered callback *)

RestoreRegs ==
  [reg \in EventRegs \cup {"PSR_AUDIO_LANG", "PSR_PG_AND_SUB_LANG"} |->
     IF reg \in {"PSR_AUDIO_LANG", "PSR_PG_AND_SUB_LANG"} THEN Bits(1)
     ELSE IF reg = "PSR_ANGLE_NUMBER" THEN Bits(2)
     ELSE IF reg = "PSR_PG_STREAM" THEN Bits(1)
     ELSE {}]

\* The saved registers, as the events bd_psr_restore_state calls the
\* callback with.
RestoreEvents ==
  { PsrEvent("BD_PSR_RESTORE", r[1], {}, r[2]) :
      r \in { <<"PSR_ANGLE_NUMBER", Bits(2)>>, <<"PSR_TITLE_NUMBER", Bits(1)>>,
              <<"PSR_CHAPTER", Bits(2)>>, <<"PSR_PLAYLIST", Bits(1)>>,
              <<"PSR_PLAYITEM", Bits(0)>>, <<"PSR_PLAYITEM", Bits(1)>>,
              <<"PSR_PLAYITEM", Bits(2)>>, <<"PSR_TIME", Bits(15)>>,
              <<"PSR_TIME", Bits(25)>>, <<"PSR_SELECTED_BUTTON_ID", Bits(1)>> } }

\* What the disc and the graphics controller return during an operation.
RestoreIo(stn, psrs, o, ok) ==
  [stn |-> stn, psrs |-> psrs, cmds |-> NoCmds]
    @@ [OpenIo(1, o, EMPTY_UO_MASK, EMPTY_UO_MASK) EXCEPT !.pl_ok = ok]

NoStn == [audio |-> <<>>, pg |-> <<>>]

\* The clip file opens or does not.
SeekIos == { RestoreIo(NoStn, FALSE, o, TRUE) : o \in {"ok", "no_fp"} }

\* Only the playlist event opens a playlist.
RestoreIos(ev) ==
  IF ev.psr_idx = "PSR_PLAYLIST"
  THEN { RestoreIo(n, p, "ok", ok) :
           n \in {NoStn, [audio |-> <<2, 1>>, pg |-> <<1>>]},
           p \in BOOLEAN, ok \in BOOLEAN }
  ELSE SeekIos

\* An HDMV title or none, before a playlist is opened; the event queue
\* exists and the callback is registered.
InitRestore ==
  /\ \E type \in {"title_hdmv", "title_undef"} :
       bd = [EventBd(RestoreRegs) EXCEPT
               !.title_type = type,
               !.hdmv_vm = type = "title_hdmv",
               !.graphics_controller = type = "title_hdmv"]
  /\ ret = [op |-> "init", val |-> 0]
  /\ hist = InitHist

\* The callback is called with a restore event by the VM that resumes,
\* under the mutex of the operation that runs the VM.
RestoreEvent ==
  /\ bd.event_queue.ev = <<>>
  /\ \E ev \in RestoreEvents : \E io \in RestoreIos(ev) :
       /\ bd' = bd_mutex_unlock(
                  _process_psr_restore_event(bd_mutex_lock(EnterEvent(bd)),
                                             ev, io))
       /\ ret' = [op |-> "restore", val |-> 0, ev |-> ev]
       /\ hist' = hist

BdjSeek ==
  /\ bd.event_queue.ev = <<>>
  /\ \E playitem \in {0, 1}, playmark \in {-1, 0}, time \in {-1, 70},
        io \in SeekIos :
       /\ bd' = bd_bdj_seek(EnterEvent(bd), playitem, playmark, time, io)
       /\ ret' = [op |-> "bdj_seek", val |-> 1]
       /\ hist' = hist

SeekPlayitem ==
  /\ bd.event_queue.ev = <<>>
  /\ \E clip_ref \in {0, 1, 2}, io \in SeekIos :
       /\ bd' = bd_seek_playitem(EnterEvent(bd), clip_ref, io)
       /\ ret' = [op |-> "seek_playitem", val |-> bd'.s_pos]
       /\ hist' = hist

SetDecodePg ==
  /\ bd.event_queue.ev = <<>>
  /\ \E value \in {{}, {0}} :
       /\ bd' = bd_set_decode_pg(EnterEvent(bd), value)
       /\ ret' = [op |-> "set_decode_pg", val |-> 1]
       /\ hist' = hist

RestoreGetEvent ==
  /\ bd.event_queue.ev # <<>>
  /\ LET r == bd_get_event(EnterEvent(bd)) IN
       /\ bd' = r.b
       /\ ret' = [op |-> "get_event", val |-> r.ret]
       /\ hist' = hist

NextRestore ==
  \/ RestoreEvent \/ BdjSeek \/ SeekPlayitem \/ SetDecodePg
  \/ RestoreGetEvent

SpecRestore == InitRestore /\ [][NextRestore]_vars

----------------------------------------------------------------------------
(* Properties of the register callback, checked under SpecRestore *)

CalledFns(b) == [i \in DOMAIN b.calls |-> b.calls[i].fn]

\* The calls of the restore handler itself: _init_pg_stream is called by
\* the change handler when the open changes PSR_PG_STREAM.
ByRestoreHandler(c) == c.fn # "_init_pg_stream"

\* C21 as stated: bd_mutex_lock is never called for the mutex of the
\* object while the calling thread holds it.
MutexNeverRerequested == \A i \in DOMAIN bd.depths : bd.depths[i] = 0

\* C28: the restore events of the angle, the chapter and the selected
\* button change nothing; the playlist event selects the playlist and
\* then sets the angle PSR_ANGLE_NUMBER holds after that, minus 1; the
\* play item event seeks to the first packet of the play item; the time
\* event seeks in the open clip, then initialises the IG stream, then
\* runs the graphics controller with GC_CTRL_INIT_MENU.
RestoreInOrder ==
  [][ ret'.op = "restore" =>
        /\ ret'.ev.psr_idx \in {"PSR_ANGLE_NUMBER", "PSR_CHAPTER",
                                "PSR_SELECTED_BUTTON_ID"}
             => bd' = [EnterEvent(bd) EXCEPT !.depths = <<0>>]
        /\ ret'.ev.psr_idx = "PSR_PLAYLIST"
             => /\ SelectSeq(bd'.calls, ByRestoreHandler)
                     = << [fn |-> "bd_select_playlist",
                           arg |-> ret'.ev.new_val],
                          [fn |-> "nav_set_angle",
                           arg |-> Minus1(bd'.regs.PSR_ANGLE_NUMBER)] >>
                /\ bd'.regs.PSR_ANGLE_NUMBER
                     \in {bd.regs.PSR_ANGLE_NUMBER, Bits(1)}
        /\ ret'.ev.psr_idx = "PSR_PLAYITEM"
             => /\ bd'.calls = << [fn |-> "bd_seek_playitem",
                                   arg |-> Num(ret'.ev.new_val)] >>
                /\ IF bd.title /\ Num(ret'.ev.new_val) < Len(ClipTable)
                   THEN bd'.st0.fp
                          => /\ bd'.st0.clip = Num(ret'.ev.new_val) + 1
                             /\ bd'.st0.clip_pos
                                  = ClipTable[bd'.st0.clip].start_pkt * PktLen
                             /\ bd'.s_pos
                                  = ClipTable[bd'.st0.clip].title_pkt * PktLen
                   ELSE bd'.st0 = bd.st0 /\ bd'.s_pos = bd.s_pos
        /\ ret'.ev.psr_idx = "PSR_TIME"
             => CalledFns(bd')
                  = IF /\ bd.title /\ bd.st0.clip # NoClip
                       /\ Num(ret'.ev.new_val) < ClipTimes.out_time
                    THEN <<"nav_clip_time_search", "_init_ig_stream",
                           "_run_gc">>
                    ELSE <<"_init_ig_stream", "_run_gc">>
    ]_vars

\* The playlist was selected and the saved angle 2 was set as angle 1.
SavedAngleSet ==
  /\ ret.op = "restore" /\ ret.ev.psr_idx = "PSR_PLAYLIST"
  /\ bd.title /\ bd.regs.PSR_ANGLE_NUMBER = Bits(2)
  /\ bd.calls[Len(bd.calls)] = [fn |-> "nav_set_angle", arg |-> Bits(1)]

----------------------------------------------------------------------------
(* The ARGB overlay callback and its mutex *)

\* A registration hands over a callback, a handle and a buffer; they are
\* numbered by the registration they come from, 0 for NULL.
Registrations == {1, 2}

\* The three assignments of bd_register_argb_overlay_proc, one by one:
\* pc names the field written next.
bd_register_argb_overlay_proc(b, pc, v) ==
  IF pc = "func" THEN [b EXCEPT !.argb_overlay_proc = v]
  ELSE IF pc = "handle" THEN [b EXCEPT !.argb_overlay_proc_handle = v]
  ELSE [b EXCEPT !.argb_buffer = v]

AfterPc(pc) ==
  IF pc = "func" THEN "handle" ELSE IF pc = "handle" THEN "buf" ELSE "unlock"

\* Faulty variant of argb_buffer_mutex_free: the mutex is not looked at.
argb_buffer_mutex_any(b) == TRUE

\* bd_mutex_lock(&bd->argb_buffer_mutex) goes on when no thread holds it.
argb_buffer_mutex_free(b) == b.argb_buffer_mutex = "none"

\* The threads: "reg" registers, "osd" is a holder of the ARGB mutex that
\* reads the three fields (the BD-J overlay path), "play" runs a public
\* operation under bd->mutex.  seen: what "osd" has read.
InitArgb ==
  /\ bd = [ argb_overlay_proc |-> 0, argb_overlay_proc_handle |-> 0,
            argb_buffer |-> 0, argb_buffer_mutex |-> "none",
            mutex |-> "none" ] @@ InitBd
  /\ ret = [ reg |-> [pc |-> "idle", v |-> 0, beside |-> FALSE],
             osd |-> [pc |-> "idle", seen |-> <<>>],
             play |-> [pc |-> "idle"] ]
  /\ hist = InitHist

\* beside: the call was made while "play" held bd->mutex, which it still
\* does.
ArgbRegisterCall ==
  /\ ret.reg.pc = "idle"
  /\ \E v \in Registrations \cup {0} :
       ret' = [ret EXCEPT !.reg = [pc |-> "lock", v |-> v,
                                   beside |-> bd.mutex = "play"]]
  /\ UNCHANGED <<bd, hist>>

ArgbRegisterLock ==
  /\ ret.reg.pc = "lock"
  /\ argb_buffer_mutex_free(bd)
  /\ bd' = [bd EXCEPT !.argb_buffer_mutex = "reg"]
  /\ ret' = [ret EXCEPT !.reg.pc = "func"]
  /\ UNCHANGED hist

ArgbRegisterStore ==
  /\ ret.reg.pc \in {"func", "handle", "buf"}
  /\ bd' = bd_register_argb_overlay_proc(bd, ret.reg.pc, ret.reg.v)
  /\ ret' = [ret EXCEPT !.reg.pc = AfterPc(ret.reg.pc)]
  /\ UNCHANGED hist

ArgbRegisterUnlock ==
  /\ ret.reg.pc = "unlock"
  /\ bd' = [bd EXCEPT !.argb_buffer_mutex = "none"]
  /\ ret' = [ret EXCEPT !.reg.pc = "idle"]
  /\ UNCHANGED hist

OsdLock ==
  /\ ret.osd.pc = "idle"
  /\ argb_buffer_mutex_free(bd)
  /\ bd' = [bd EXCEPT !.argb_buffer_mutex = "osd"]
  /\ ret' = [ret EXCEPT !.osd = [pc |-> "func", seen |-> <<>>]]
  /\ UNCHANGED hist

OsdRead ==
  /\ ret.osd.pc \in {"func", "handle", "buf"}
  /\ ret' = [ret EXCEPT
               !.osd.seen =
                  Append(@, IF ret.osd.pc = "func"
                            THEN bd.argb_overlay_proc
                            ELSE IF ret.osd.pc = "handle"
                            THEN bd.argb_overlay_proc_handle
                            ELSE bd.argb_buffer),
               !.osd.pc = AfterPc(ret.osd.pc)]
  /\ UNCHANGED <<bd, hist>>

OsdUnlock ==
  /\ ret.osd.pc = "unlock"
  /\ bd' = [bd EXCEPT !.argb_buffer_mutex = "none"]
  /\ ret' = [ret EXCEPT !.osd.pc = "idle"]
  /\ UNCHANGED hist

ArgbPlayLock ==
  /\ ret.play.pc = "idle"
  /\ bd.mutex = "none"
  /\ bd' = [bd EXCEPT !.mutex = "play"]
  /\ ret' = [ret EXCEPT !.play.pc = "body"]
  /\ UNCHANGED hist

ArgbPlayUnlock ==
  /\ ret.play.pc = "body"
  /\ bd' = [bd EXCEPT !.mutex = "none"]
  /\ ret' = [ret EXCEPT !.play.pc = "idle", !.reg.beside = FALSE]
  /\ UNCHANGED hist

NextArgb ==
  \/ ArgbRegisterCall \/ ArgbRegisterLock \/ ArgbRegisterStore
  \/ ArgbRegisterUnlock \/ OsdLock \/ OsdRead \/ OsdUnlock
  \/ ArgbPlayLock \/ ArgbPlayUnlock

SpecArgb == InitArgb /\ [][NextArgb]_vars

\* C22: bd_register_argb_overlay_proc writes the callback, the handle
\* and the buffer while it holds the ARGB mutex and never holds
\* bd->mutex; a thread that reads the three under the ARGB mutex gets
\* those of one registration; and the registration does not wait for
\* bd->mutex: each of its steps but the ARGB lock can be taken whoever
\* holds bd->mutex.
ArgbRegisteredTogether ==
  /\ ret.reg.pc \in {"func", "handle", "buf", "unlock"}
       => bd.argb_buffer_mutex = "reg"
  /\ bd.mutex # "reg"
  /\ \A i, j \in DOMAIN ret.osd.seen : ret.osd.seen[i] = ret.osd.seen[j]
  /\ bd.argb_buffer_mutex = "none"
       => /\ bd.argb_overlay_proc = bd.argb_overlay_proc_handle
          /\ bd.argb_overlay_proc = bd.argb_buffer
  /\ (ret.reg.pc = "lock" /\ bd.argb_buffer_mutex = "none")
       => ENABLED ArgbRegisterLock
  /\ ret.reg.pc \in {"func", "handle", "buf"} => ENABLED ArgbRegisterStore
  /\ ret.reg.pc = "unlock" => ENABLED ArgbRegisterUnlock

\* A registration was made from its call to its unlock while another
\* thread held bd->mutex, and the reading thread then saw all three
\* fields of it.
RegisteredBesidePlayback ==
  /\ ret.reg.pc = "idle" /\ ret.reg.beside /\ ret.reg.v = 2
  /\ ret.play.pc = "body"
  /\ ret.osd.seen = <<2, 2, 2>>

----------------------------------------------------------------------------
(* Angles *)

\* The angles of the title.
Angles == {0, 1}

\* nav_set_angle as bd_select_angle sees it: the title takes the angle
\* when it has it.
nav_set_title_angle(b, angle) ==
  IF angle \in Angles THEN [b EXCEPT !.title_angle = angle] ELSE b

_bd_select_angle_done(o) == [b |-> o.b, ret |-> IF o.ret = 0 THEN 0 ELSE 1]

\* Faulty variant of _bd_select_angle_open: the register is written when
\* the clip of the angle has been opened.
_bd_select_angle_open_late(b, orig_angle, io) ==
  IF orig_angle = b.title_angle
  THEN [b |-> b, ret |-> 1]
  ELSE LET o == _open_m2ts(b, "st0", io) IN
       IF o.ret = 0
       THEN [b |-> o.b, ret |-> 0]
       ELSE [b |-> bd_psr_write(o.b, "PSR_ANGLE_NUMBER",
                                o.b.title_angle + 1),
             ret |-> 1]

_bd_select_angle_open(b, orig_angle, io) ==
  IF orig_angle = b.title_angle
  THEN [b |-> b, ret |-> 1]
  ELSE _bd_select_angle_done(
         _open_m2ts(bd_psr_write(b, "PSR_ANGLE_NUMBER", b.title_angle + 1),
                    "st0", io))

_bd_select_angle(b, angle, io) ==
  IF ~b.title
  THEN [b |-> b, ret |-> 0]
  ELSE _bd_select_angle_open(nav_set_title_angle(b, angle),
                             b.title_angle, io)

bd_select_angle(b, angle, io) == _bd_select_angle(b, angle, io)

bd_get_current_angle(b) == IF b.title THEN b.title_angle ELSE 0

\* The next point of the clip at or behind clip packet pkt where the angle
\* may change, the end of the clip when there is none; time stands for the
\* time of that point.
nav_clip_angle_change_search(c, pkt) ==
  LET next == { e \in ClipTable[c].ep : e >= pkt } IN
  IF next = {}
  THEN [pkt |-> ClipTable[c].end_pkt, time |-> ClipTable[c].end_pkt]
  ELSE LET e == CHOOSE e \in next : \A f \in next : e <= f
       IN [pkt |-> e, time |-> e]

bd_seamless_angle_change_at(b, angle, found) ==
  [b EXCEPT !.angle_change_pkt = found.pkt,
            !.angle_change_time = found.time,
            !.request_angle = angle,
            !.seamless_angle_change = 1]

\* Faulty variant of bd_seamless_angle_change: the search starts at the
\* packet the clip position lies in.
bd_seamless_angle_change_floor(b, angle) ==
  bd_seamless_angle_change_at(b, angle,
    nav_clip_angle_change_search(b.st0.clip, Val(SPN(U64(b.st0.clip_pos)))))

bd_seamless_angle_change(b, angle) ==
  bd_seamless_angle_change_at(b, angle,
    nav_clip_angle_change_search(b.st0.clip,
                                 Val(SPN(U64(b.st0.clip_pos + 191)))))

----------------------------------------------------------------------------
(* Angle operations on an open title *)

InitAngle ==
  /\ bd = [ title_angle |-> 0, angle_change_pkt |-> 0,
            angle_change_time |-> 0, request_angle |-> 0,
            seamless_angle_change |-> 0, psr_written |-> <<>> ] @@ InitBd
  /\ ret = [op |-> "init", val |-> 0, angle |-> 0]
  /\ hist = InitHist

EnterAngle(b) == [Enter(b) EXCEPT !.psr_written = <<>>]

\* Bytes asked of one read.
AngleReadLens == {100, 3000}

AngleOpenPlaylist ==
  /\ ~bd.title
  /\ \E io \in StreamOpenInputs(1) :
       LET r == _open_playlist(EnterAngle(bd), io) IN
       /\ bd' = [r.b EXCEPT !.title_angle = 0]
       /\ ret' = [op |-> "open", val |-> r.ret, angle |-> 0]
  /\ UNCHANGED hist

AngleRead ==
  /\ bd.title
  /\ \E len \in AngleReadLens :
       LET r == _bd_read_locked(EnterAngle(bd), len) IN
       /\ bd' = r.b
       /\ ret' = [op |-> "read", val |-> r.ret, angle |-> 0]
  /\ UNCHANGED hist

SelectAngle ==
  \E angle \in Angles \cup {2} :
    LET r == bd_select_angle(EnterAngle(bd), angle,
                             OpenIo(1, "ok", EMPTY_UO_MASK, EMPTY_UO_MASK))
    IN
    /\ bd' = r.b
    /\ ret' = [op |-> "select_angle", val |-> r.ret, angle |-> angle]
    /\ UNCHANGED hist

\* The clip is open: what nav_clip_angle_change_search does with no clip
\* is not known.
SeamlessAngleChange ==
  /\ bd.st0.clip # NoClip
  /\ \E angle \in Angles :
       /\ bd' = bd_seamless_angle_change(EnterAngle(bd), angle)
       /\ ret' = [op |-> "seamless", val |-> 0, angle |-> angle]
  /\ UNCHANGED hist

GetCurrentAngle ==
  /\ bd' = EnterAngle(bd)
  /\ ret' = [op |-> "get_angle", val |-> bd_get_current_angle(bd),
             angle |-> 0]
  /\ UNCHANGED hist

NextAngle ==
  \/ AngleOpenPlaylist \/ AngleRead \/ SelectAngle \/ SeamlessAngleChange
  \/ GetCurrentAngle

SpecAngle == InitAngle /\ [][NextAngle]_vars

\* The first packet that begins at or behind byte position pos.
FirstBoundary(pos) ==
  CHOOSE p \in 0..(pos \div PktLen + 1) :
    /\ p * PktLen >= pos
    /\ (p - 1) * PktLen < pos

\* C27: bd_seamless_angle_change stores the angle asked for, the change
\* point found from the first packet boundary at or behind the clip
\* position, and the flag of the pending change; the angle that
\* bd_get_current_angle returns, PSR_ANGLE_NUMBER, the clip file, the
\* stream and the title position are as before.
SeamlessOnlyRecords ==
  [][ ret'.op = "seamless" =>
        /\ bd'.request_angle = ret'.angle
        /\ bd'.seamless_angle_change = 1
        /\ bd'.angle_change_pkt =
             nav_clip_angle_change_search(
               bd.st0.clip, FirstBoundary(bd.st0.clip_pos)).pkt
        /\ bd_get_current_angle(bd') = bd_get_current_angle(bd)
        /\ bd'.title_angle = bd.title_angle
        /\ bd'.psr_written = <<>>
        /\ bd'.st0 = bd.st0
        /\ bd'.s_pos = bd.s_pos
        /\ bd'.title = bd.title
        /\ bd'.event_queue = bd.event_queue
        /\ bd'.queued = <<>> ]_vars

\* A change to another angle than the current one was asked for in the
\* middle of a packet; the change point is the entry point behind it.
SeamlessAskedInsidePacket ==
  /\ ret.op = "seamless"
  /\ bd.seamless_angle_change = 1
  /\ bd.request_angle # bd_get_current_angle(bd)
  /\ bd.st0.clip_pos % PktLen # 0
  /\ bd.st0.clip_pos \div PktLen = 60
  /\ bd.angle_change_pkt = 90

----------------------------------------------------------------------------
(* The TextST timer *)

\* (uint64_t)(int64_t)-1: no wake-up.
NoWakeup == <<Limb - 1, Limb - 1, Limb - 1, Limb - 1>>

\* in_time and out_time of the clips.
ClipTimesOf(c) == [in_time |-> 10 * c, out_time |-> 10 * c + 10]

\* The clip information as a table of times: 25 packets to a tick.
\* nav_clip_time_search gives the entry point of the clip at or before
\* the time, nav_clip_packet_search the time of a packet.
nav_clip_time_search(c, time) ==
  EntryPoint(c, ClipTable[c].start_pkt
                  + (time - ClipTimesOf(c).in_time) * 25)

nav_clip_packet_time(c, pkt) ==
  IF pkt <= ClipTable[c].start_pkt
  THEN ClipTimesOf(c).in_time
  ELSE ClipTimesOf(c).in_time + (pkt - ClipTable[c].start_pkt) \div 25

\* The call of gc_run(GC_CTRL_PG_UPDATE), noted with the block position
\* and the wake-up position of that moment.
gc_run_pg_update(b) ==
  Called(b, "gc_run",
         [msg |-> "GC_CTRL_PG_UPDATE", param |-> b.gc_wakeup_time,
          block_pos |-> b.st0.clip_block_pos,
          wakeup_pos |-> b.gc_wakeup_pos])

\* io.wakeup_time: cmds.wakeup_time as the controller leaves it; io.cl:
\* the clip has its clip information.
_update_textst_timer_next(b, io) ==
  LET clip == b.st0.clip
      b1 == [b EXCEPT !.gc_wakeup_time = io.wakeup_time,
                      !.gc_wakeup_pos = NoWakeup]
  IN
  IF /\ io.wakeup_time >= ClipTimesOf(clip).in_time
     /\ io.wakeup_time < ClipTimesOf(clip).out_time
     /\ io.cl
     /\ nav_clip_time_search(clip, io.wakeup_time) # 0
  THEN [b1 EXCEPT !.gc_wakeup_pos =
          MulSmall(U64(nav_clip_time_search(clip, io.wakeup_time)), PktLen)]
  ELSE b1

\* Faulty variant of _update_textst_timer: the position is not compared.
_update_textst_timer_always(b, io) ==
  IF b.st_textst_clip
  THEN _update_textst_timer_next(gc_run_pg_update(b), io)
  ELSE b

_update_textst_timer(b, io) ==
  IF b.st_textst_clip
     /\ ~Less(U64(b.st0.clip_block_pos), b.gc_wakeup_pos)
  THEN _update_textst_timer_next(gc_run_pg_update(b), io)
  ELSE b

_init_textst_timer(b, io) ==
  IF b.st_textst_clip /\ io.cl
  THEN _update_textst_timer(
         [b EXCEPT !.gc_wakeup_time =
                      nav_clip_packet_time(
                        b.st0.clip, Val(SPN(U64(b.st0.clip_block_pos)))),
                   !.gc_wakeup_pos = U64(0)],
         io)
  ELSE b

\* _open_m2ts of the main path with the timer it starts.
_open_m2ts_timer(o, io) ==
  IF o.ret = 1 THEN [b |-> _init_textst_timer(o.b, io), ret |-> 1] ELSE o

----------------------------------------------------------------------------
(* Reading a title with a TextST sub path *)

\* Wake-up times the controller asks for: none (0), and times before, in
\* and behind the clips.
WakeupTimes == {0, 10, 13, 19, 20, 24, 28, 30}

TimerIos == [wakeup_time : WakeupTimes, cl : BOOLEAN]

InitTextst ==
  /\ bd = [ st_textst_clip |-> FALSE, gc_wakeup_time |-> 0,
            gc_wakeup_pos |-> U64(0), calls |-> <<>> ] @@ InitBd
  /\ ret = [op |-> "init", val |-> 0]
  /\ hist = InitHist

EnterTextst(b) == [Enter(b) EXCEPT !.calls = <<>>]

\* The playlist is opened with no sub path loaded yet.
TextstOpenPlaylist ==
  /\ ~bd.title
  /\ LET r == _open_playlist(
                [EnterTextst(bd) EXCEPT !.st_textst_clip = FALSE],
                OpenIo(1, "ok", EMPTY_UO_MASK, EMPTY_UO_MASK))
     IN /\ bd' = r.b
        /\ ret' = [op |-> "open", val |-> r.ret]
  /\ UNCHANGED hist

\* The TextST sub path is loaded or dropped.
TextstPreload ==
  /\ bd.title /\ bd.st0.clip # NoClip
  /\ \E loaded \in BOOLEAN :
       /\ bd' = [EnterTextst(bd) EXCEPT !.st_textst_clip = loaded]
       /\ ret' = [op |-> "preload", val |-> IF loaded THEN 1 ELSE 0]
  /\ UNCHANGED hist

\* The read path goes on to another clip of the title.
TextstNextClip ==
  /\ bd.title /\ bd.st0.clip # NoClip
  /\ \E clip \in ClipIds \ {bd.st0.clip}, io \in TimerIos :
       LET r == _open_m2ts_timer(
                  _open_m2ts([EnterTextst(bd) EXCEPT !.st0.clip = clip],
                             "st0",
                             OpenIo(clip, "ok", EMPTY_UO_MASK,
                                    EMPTY_UO_MASK)),
                  io)
       IN /\ bd' = r.b
          /\ ret' = [op |-> "next_clip", val |-> r.ret]
  /\ UNCHANGED hist

\* One unit is read and the timer is looked at.
TextstRead ==
  /\ bd.title /\ bd.st0.clip # NoClip /\ bd.st0.fp
  /\ bd.st0.clip_block_pos + UnitLen <= bd.st0.clip_size
  /\ \E io \in TimerIos :
       LET r == _read_block(EnterTextst(bd), "st0",
                            [read_len |-> UnitLen, buf |-> CleanUnit,
                             seek_ok |-> TRUE, filter_res |-> 0])
       IN /\ bd' = _update_textst_timer(r.b, io)
          /\ ret' = [op |-> "read", val |-> r.ret]
  /\ UNCHANGED hist

NextTextst ==
  TextstOpenPlaylist \/ TextstPreload \/ TextstNextClip \/ TextstRead

SpecTextst == InitTextst /\ [][NextTextst]_vars

\* The wake-up position belongs to a wake-up time of clip c.
WakeupInClip(b, c) ==
  /\ b.gc_wakeup_time >= ClipTimesOf(c).in_time
  /\ b.gc_wakeup_time < ClipTimesOf(c).out_time
  /\ b.gc_wakeup_pos =
       MulSmall(U64(nav_clip_time_search(c, b.gc_wakeup_time)), PktLen)

\* C30: gc_run(GC_CTRL_PG_UPDATE) is called at most once in a step and
\* only with a TextST sub path loaded and clip_block_pos at or behind
\* gc_wakeup_pos; after the call gc_wakeup_pos is the maximum value or
\* 192 times the packet of a wake-up time in [in_time, out_time) of the
\* current clip; a read before the wake-up position calls nothing and
\* leaves the timer as it is.
TextstTimerWakes ==
  [][ /\ Len(bd'.calls) <= 1
      /\ bd'.calls # <<>> =>
           /\ bd'.st_textst_clip
           /\ bd'.calls[1].arg.msg = "GC_CTRL_PG_UPDATE"
           /\ ~Less(U64(bd'.calls[1].arg.block_pos), bd'.calls[1].arg.wakeup_pos)
           /\ bd'.calls[1].arg.block_pos = bd'.st0.clip_block_pos
           /\ \/ bd'.gc_wakeup_pos = NoWakeup
              \/ WakeupInClip(bd', bd'.st0.clip)
      /\ ( /\ ret'.op = "read"
           /\ Less(U64(bd'.st0.clip_block_pos), bd.gc_wakeup_pos) )
           => /\ bd'.calls = <<>>
              /\ bd'.gc_wakeup_pos = bd.gc_wakeup_pos
              /\ bd'.gc_wakeup_time = bd.gc_wakeup_time
      /\ ( /\ ret'.op = "read" /\ bd.st_textst_clip
           /\ ~Less(U64(bd'.st0.clip_block_pos), bd.gc_wakeup_pos) )
           => /\ Len(bd'.calls) = 1
              /\ bd'.calls[1].arg.wakeup_pos = bd.gc_wakeup_pos ]_vars

\* The controller has set a wake-up position in the current clip, and a
\* read that ends before it has not called the controller.
WakeupAhead ==
  /\ ret.op = "read"
  /\ bd.calls = <<>>
  /\ bd.st_textst_clip
  /\ WakeupInClip(bd, bd.st0.clip)
  /\ bd.st0.clip_block_pos > 0
  /\ Less(U64(bd.st0.clip_block_pos), bd.gc_wakeup_pos)

----------------------------------------------------------------------------
(* Selecting a title of the title list *)

\* bd->title_list: title_list says that it is not NULL, title_count is
\* its count.  nav_get_title_list returns NULL when it fails.
bd_get_titles(b, count) ==
  [b |-> [b EXCEPT !.title_list = count > 0, !.title_count = count],
   ret |-> count]

bd_select_title_open(b, title_idx, io) ==
  _open_playlist([b EXCEPT !.title_idx = title_idx], io)

bd_select_title(b, title_idx, io) ==
  IF ~b.title_list
  THEN [b |-> b, ret |-> 0]
  ELSE IF b.title_count <= title_idx
  THEN [b |-> b, ret |-> 0]
  ELSE bd_select_title_open(b, title_idx, io)

bd_get_current_title(b) == b.title_idx

\* The playlist file of a title is there or is not; the clip opens or
\* does not.
SelectIos ==
  { [OpenIo(1, o, EMPTY_UO_MASK, EMPTY_UO_MASK) EXCEPT !.pl_ok = ok] :
      o \in {"ok", "no_fp"}, ok \in BOOLEAN }

InitSelect ==
  /\ bd = [title_list |-> FALSE, title_count |-> 0, title_idx |-> 0]
            @@ InitBd
  /\ ret = [op |-> "init", val |-> 0, title_idx |-> 0, before |-> 0]
  /\ hist = InitHist

\* nav_get_title_list fails (0) or finds two or three titles.
GetTitles ==
  \E count \in {0, 2, 3} :
    LET r == bd_get_titles(Enter(bd), count) IN
    /\ bd' = r.b
    /\ ret' = [op |-> "get_titles", val |-> r.ret, title_idx |-> 0,
               before |-> bd_get_current_title(bd)]
    /\ UNCHANGED hist

\* before: what bd_get_current_title returned before the call.
SelectTitle ==
  \E title_idx \in 0..3, io \in SelectIos :
    LET r == bd_select_title(Enter(bd), title_idx, io) IN
    /\ bd' = r.b
    /\ ret' = [op |-> "select_title", val |-> r.ret,
               title_idx |-> title_idx,
               before |-> bd_get_current_title(bd)]
    /\ UNCHANGED hist

GetCurrentTitle ==
  /\ bd' = Enter(bd)
  /\ ret' = [op |-> "get_current_title", val |-> bd_get_current_title(bd),
             title_idx |-> 0, before |-> bd_get_current_title(bd)]
  /\ UNCHANGED hist

NextSelect == GetTitles \/ SelectTitle \/ GetCurrentTitle

SpecSelect == InitSelect /\ [][NextSelect]_vars

\* C31 as stated: after a bd_select_title call that returned 0,
\* bd_get_current_title returns what it returned before the call.
FailedSelectKeepsTitle ==
  (ret.op = "select_title" /\ ret.val = 0)
    => bd_get_current_title(bd) = ret.before

----------------------------------------------------------------------------
(* The encrypted-unit counter over many reads *)

\* Encrypted-class units counted since the counter was last cleared: one
\* turn of the 8-bit counter and the units up to the next report.
MaxSince == 268

EncUnit == Unit(CpiMask, SyncByte, 0, SyncByte, SyncByte)
DroppedUnit == Unit(0, 0, SyncByte, SyncByte, SyncByte)
CpiWholeUnit == Unit(CpiMask, SyncByte, SyncByte, SyncByte, SyncByte)

\* Reads of a whole unit of each kind, a short read and a read of nothing.
EncReadInputs ==
  { [read_len |-> UnitLen, buf |-> u, seek_ok |-> TRUE, filter_res |-> 0] :
      u \in {EncUnit, DroppedUnit, CleanUnit, CpiWholeUnit} }
  \cup { [read_len |-> n, buf |-> CleanUnit, seek_ok |-> TRUE,
          filter_res |-> 0] : n \in {0, 100} }

\* since: the encrypted-class units read since the clip was opened or a
\* unit was accepted.
InitEnc ==
  /\ bd = InitBd
  /\ ret = [op |-> "init", val |-> 0, kind |-> "none"]
  /\ hist = [since |-> 0] @@ InitHist

EncOpenPlaylist ==
  /\ \E o \in {"ok", "no_fp"} :
       LET r == _open_playlist(Enter(bd),
                               OpenIo(1, o, EMPTY_UO_MASK, EMPTY_UO_MASK))
       IN /\ bd' = r.b
          /\ ret' = [op |-> "open", val |-> r.ret, kind |-> "none"]
  /\ hist' = [hist EXCEPT !.since = 0]

\* A seek in the clip that is open; the file stays open.
EncSeekStream ==
  /\ bd.title /\ bd.st0.clip # NoClip /\ bd.st0.fp
  /\ \E pkt \in SeekPkts :
       LET r == _seek_stream(Enter(bd), "st0", bd.st0.clip, pkt,
                             OpenIo(bd.st0.clip, "ok", EMPTY_UO_MASK,
                                    EMPTY_UO_MASK))
       IN /\ bd' = r.b
          /\ ret' = [op |-> "seek", val |-> r.ret, kind |-> "none"]
  /\ UNCHANGED hist

\* kind: "enc" for a whole unit of the encrypted class, "accepted" for a
\* unit _validate_unit accepts, "dropped" for another whole unit, "short"
\* for a read of less than a unit, "beyond" for a read behind the file.
EncReadKind(st, rd) ==
  IF ~st.fp THEN "closed"
  ELSE IF UnitLen + st.clip_block_pos > st.clip_size THEN "beyond"
  ELSE IF rd.read_len # UnitLen THEN "short"
  ELSE IF EncryptedClass(rd.buf) THEN "enc"
  ELSE IF AllSyncs(rd.buf) THEN "accepted"
  ELSE "dropped"

EncReadBlock ==
  /\ bd.st0.clip_block_pos <= MaxUnits * UnitLen
  /\ hist.since < MaxSince
  /\ \E rd \in EncReadInputs :
       LET r == _read_block(Enter(bd), "st0", rd)
           kind == EncReadKind(bd.st0, rd)
       IN /\ bd' = r.b
          /\ ret' = [op |-> "read", val |-> r.ret, kind |-> kind]
          /\ hist' = [hist EXCEPT
                        !.since = IF kind = "enc" THEN @ + 1
                                  ELSE IF kind = "accepted" THEN 0
                                  ELSE @]

NextEnc == EncOpenPlaylist \/ EncSeekStream \/ EncReadBlock

SpecEnc == InitEnc /\ [][NextEnc]_vars

----------------------------------------------------------------------------
(* Stream selection by language *)

\* Stream tables of a play item: the languages of its streams, 0 for a
\* stream without language.
LangStreamLists == { <<1>>, <<2, 1>>, <<2, 1, 1>>, <<3, 3>>, <<0, 1>> }

LangRet(op, reg, streams, blacklist, enable_flag, lang) ==
  [op |-> op, reg |-> reg, streams |-> streams, blacklist |-> blacklist,
   enable_flag |-> enable_flag, lang |-> lang]

InitLang ==
  /\ bd = [ regs |-> [ PSR_PG_STREAM |-> {}, PSR_PRIMARY_AUDIO_ID |-> {},
                       PSR_AUDIO_LANG |-> Word,
                       PSR_PG_AND_SUB_LANG |-> Word ],
            decode_pg |-> FALSE ] @@ InitBd
  /\ ret = LangRet("init", "PSR_PG_STREAM", <<>>, {}, {}, {})
  /\ hist = InitHist

LangSetPlayerSetting ==
  \E idx \in {"PSR_AUDIO_LANG", "PSR_PG_AND_SUB_LANG"}, l \in 0..2 :
    /\ bd' = bd_set_player_setting(bd, idx, Bits(l))
    /\ ret' = LangRet("set_lang", idx, <<>>, {}, {}, Bits(l))
    /\ UNCHANGED hist

\* lang: the preferred language at the call.
LangSelectAudio ==
  \E streams \in LangStreamLists :
    /\ bd' = [bd EXCEPT !.regs =
                _update_stream_psr_by_lang(@, "PSR_AUDIO_LANG",
                  "PSR_PRIMARY_AUDIO_ID", {}, streams, {})]
    /\ ret' = LangRet("by_lang", "PSR_PRIMARY_AUDIO_ID", streams, {}, {},
                      bd.regs.PSR_AUDIO_LANG)
    /\ UNCHANGED hist

LangSelectPg ==
  \E streams \in LangStreamLists, blacklist \in { Bits(l) : l \in 0..2 } :
    /\ bd' = [bd EXCEPT !.regs =
                _update_stream_psr_by_lang(@, "PSR_PG_AND_SUB_LANG",
                  "PSR_PG_STREAM", {31}, streams, blacklist)]
    /\ ret' = LangRet("by_lang", "PSR_PG_STREAM", streams, blacklist, {31},
                      bd.regs.PSR_PG_AND_SUB_LANG)
    /\ UNCHANGED hist

NextLang == LangSetPlayerSetting \/ LangSelectAudio \/ LangSelectPg

SpecLang == InitLang /\ [][NextLang]_vars

\* The stream number in the bits 0..11 of a stream register.
StreamNumber(x) == Num(x \cap 0..11)

\* C33: for a stream table that is not empty the stream number written
\* is that of the first stream in the preferred language, 1 when there is
\* none, and so lies in 1..num_streams; bit 31 is written set only when a
\* stream in the preferred language was found and no audio language was
\* given or it is another than that of the stream.
FirstStreamOfLanguage ==
  ret.op = "by_lang" =>
    LET n == StreamNumber(bd.regs[ret.reg])
        found == \E i \in DOMAIN ret.streams : Bits(ret.streams[i]) = ret.lang
    IN
    /\ n \in 1..Len(ret.streams)
    /\ found => /\ Bits(ret.streams[n]) = ret.lang
                /\ \A j \in 1..(n - 1) : Bits(ret.streams[j]) # ret.lang
    /\ ~found => n = 1
    /\ 31 \in bd.regs[ret.reg] =>
         /\ found
         /\ ret.enable_flag = {31}
         /\ ret.blacklist = {} \/ ret.blacklist # Bits(ret.streams[n])

\* The second of three PG streams is the first in the preferred language
\* and is selected with the flag set, the audio being in another language.
SecondOfThreeSelected ==
  /\ ret.op = "by_lang" /\ ret.reg = "PSR_PG_STREAM"
  /\ ret.streams = <<2, 1, 1>> /\ ret.lang = Bits(1)
  /\ ret.blacklist = Bits(2)
  /\ bd.regs.PSR_PG_STREAM = {1, 31}

----------------------------------------------------------------------------
(* Stream registers at the open of a clip *)

\* !(psr_val == 0 || psr_val > num) for a table of at most 255 streams.
InStreams(psr_val, num) ==
  /\ psr_val \subseteq 0..7
  /\ BitsValue(psr_val) >= 1
  /\ BitsValue(psr_val) <= num

\* stn: the stream table of the play item: the languages of its audio
\* and PG streams and the number of its IG streams.
_update_clip_psrs_audio(regs, stn) ==
  IF stn.audio # <<>> /\ ~InStreams(regs.PSR_PRIMARY_AUDIO_ID, Len(stn.audio))
  THEN _update_stream_psr_by_lang(regs, "PSR_AUDIO_LANG",
                                  "PSR_PRIMARY_AUDIO_ID", {}, stn.audio, {})
  ELSE regs

\* audio_lang: the language of the audio stream selected by then.
_update_clip_psrs_lang(regs, stn) ==
  IF stn.audio = <<>>
  THEN {}
  ELSE Bits(stn.audio[BitsValue(regs.PSR_PRIMARY_AUDIO_ID \cap 0..7)])

\* Faulty variant of _update_clip_psrs_pg: the whole register is compared.
_update_clip_psrs_pg_whole(regs, stn, audio_lang) ==
  IF stn.pg # <<>> /\ ~InStreams(regs.PSR_PG_STREAM, Len(stn.pg))
  THEN _update_stream_psr_by_lang(regs, "PSR_PG_AND_SUB_LANG",
                                  "PSR_PG_STREAM", {31}, stn.pg, audio_lang)
  ELSE regs

_update_clip_psrs_pg(regs, stn, audio_lang) ==
  IF stn.pg # <<>> /\ ~InStreams(regs.PSR_PG_STREAM \cap 0..11, Len(stn.pg))
  THEN _update_stream_psr_by_lang(regs, "PSR_PG_AND_SUB_LANG",
                                  "PSR_PG_STREAM", {31}, stn.pg, audio_lang)
  ELSE regs

_update_clip_psrs_ig(regs, stn, title_type) ==
  IF /\ stn.num_ig > 0 /\ title_type # "title_undef"
     /\ ~InStreams(regs.PSR_IG_STREAM_ID, stn.num_ig)
  THEN [regs EXCEPT !.PSR_IG_STREAM_ID = Bits(1)]
  ELSE regs

_update_clip_psrs_streams(regs, stn, title_type) ==
  _update_clip_psrs_ig(
    _update_clip_psrs_pg(regs, stn, _update_clip_psrs_lang(regs, stn)),
    stn, title_type)

_update_clip_psrs(b, clip, stn) ==
  [b EXCEPT !.regs =
     _update_clip_psrs_streams(
       _update_clip_psrs_audio(
         [@ EXCEPT !.PSR_PLAYITEM = Bits(ClipTable[clip].ref),
                   !.PSR_TIME = Bits(ClipTimesOf(clip).in_time)],
         stn),
       stn, b.title_type)]

\* _open_m2ts of the main path with the registers it brings up to date.
_open_m2ts_psrs(o, stn) ==
  IF o.ret = 1
  THEN [b |-> _update_clip_psrs(o.b, o.b.st0.clip, stn), ret |-> 1]
  ELSE o

----------------------------------------------------------------------------
(* Opening clips with the stream registers written by other components *)

\* Stream tables: none or three audio streams, none or two PG streams,
\* none or two IG streams.
ClipStns ==
  [audio : {<<>>, <<2, 1, 1>>}, pg : {<<>>, <<2, 1>>}, num_ig : {0, 2}]

\* Values a component writes to a stream register: 0, stream 2, 0xff,
\* and numbers with the flag bit or a bit above the stream number.
ClipPsrValues == { {}, Bits(2), 0..7, {1, 31}, {0, 12} }

StreamRegs == {"PSR_PRIMARY_AUDIO_ID", "PSR_PG_STREAM", "PSR_IG_STREAM_ID"}

ClipPsrRet(op, val, stn) == [op |-> op, val |-> val, stn |-> stn]

NoStreams == [audio |-> <<>>, pg |-> <<>>, num_ig |-> 0]

InitClipPsr ==
  /\ bd = [ regs |-> [ PSR_PRIMARY_AUDIO_ID |-> 0..7,
                       PSR_PG_STREAM |-> 0..11,
                       PSR_IG_STREAM_ID |-> Bits(1),
                       PSR_AUDIO_LANG |-> Word,
                       PSR_PG_AND_SUB_LANG |-> Word,
                       PSR_PLAYITEM |-> {}, PSR_TIME |-> {} ],
            decode_pg |-> FALSE ] @@ InitBd
  /\ ret = ClipPsrRet("init", 0, NoStreams)
  /\ hist = InitHist

\* A write of the register bank by the VM, the BD-J side or the
\* application.
ClipPsrWrite ==
  \E reg \in StreamRegs, val \in ClipPsrValues :
    /\ bd' = [Enter(bd) EXCEPT !.regs[reg] = val]
    /\ ret' = ClipPsrRet("write", 0, NoStreams)
    /\ UNCHANGED hist

ClipPsrSetLang ==
  \E idx \in {"PSR_AUDIO_LANG"} :
    /\ bd.regs[idx] # Bits(1)
    /\ bd' = bd_set_player_setting(Enter(bd), idx, Bits(1))
    /\ ret' = ClipPsrRet("set_lang", 0, NoStreams)
    /\ UNCHANGED hist

\* A title with or without menus has been started.
ClipPsrTitleType ==
  \E type \in {"title_undef", "title_hdmv"} :
    /\ bd.title_type # type
    /\ bd' = [Enter(bd) EXCEPT !.title_type = type]
    /\ ret' = ClipPsrRet("title_type", 0, NoStreams)
    /\ UNCHANGED hist

ClipPsrOpen ==
  \E clip \in {1}, stn \in ClipStns, o \in {"ok", "no_fp"} :
    LET r == _open_m2ts_psrs(
               _open_m2ts([Enter(bd) EXCEPT !.title = TRUE,
                                            !.st0.clip = clip],
                          "st0",
                          OpenIo(clip, o, EMPTY_UO_MASK, EMPTY_UO_MASK)),
               stn)
    IN /\ bd' = r.b
       /\ ret' = ClipPsrRet("open", r.ret, stn)
       /\ UNCHANGED hist

NextClipPsr ==
  ClipPsrWrite \/ ClipPsrSetLang \/ ClipPsrTitleType \/ ClipPsrOpen

SpecClipPsr == InitClipPsr /\ [][NextClipPsr]_vars

Opened(r) == r.op = "open" /\ r.val = 1

\* C34 (as amended): after the clip has been opened, with audio streams
\* the bits 0..11 of PSR_PRIMARY_AUDIO_ID are within 1..num_audio and the
\* whole register is when its bits 12..30 were 0 before; with PG streams
\* the bits 0..11 of PSR_PG_STREAM are within 1..num_pg; with IG streams
\* and a title with menus PSR_IG_STREAM_ID is within 1..num_ig.  A
\* register that was in range is left as it was.
StreamRegistersInRange ==
  [][ Opened(ret') =>
        /\ ret'.stn.audio # <<>> =>
             /\ InStreams(bd'.regs.PSR_PRIMARY_AUDIO_ID \cap 0..11,
                          Len(ret'.stn.audio))
             /\ bd.regs.PSR_PRIMARY_AUDIO_ID \cap 12..30 = {} =>
                  InStreams(bd'.regs.PSR_PRIMARY_AUDIO_ID,
                            Len(ret'.stn.audio))
             /\ InStreams(bd.regs.PSR_PRIMARY_AUDIO_ID, Len(ret'.stn.audio))
                  => bd'.regs.PSR_PRIMARY_AUDIO_ID
                       = bd.regs.PSR_PRIMARY_AUDIO_ID
        /\ ret'.stn.pg # <<>> =>
             /\ InStreams(bd'.regs.PSR_PG_STREAM \cap 0..11,
                          Len(ret'.stn.pg))
             /\ InStreams(bd.regs.PSR_PG_STREAM \cap 0..11, Len(ret'.stn.pg))
                  => bd'.regs.PSR_PG_STREAM = bd.regs.PSR_PG_STREAM
        /\ (ret'.stn.num_ig > 0 /\ bd.title_type # "title_undef") =>
             /\ InStreams(bd'.regs.PSR_IG_STREAM_ID, ret'.stn.num_ig)
             /\ InStreams(bd.regs.PSR_IG_STREAM_ID, ret'.stn.num_ig)
                  => bd'.regs.PSR_IG_STREAM_ID = bd.regs.PSR_IG_STREAM_ID
    ]_vars

\* A clip with three audio streams was opened with 0x1001 in the audio
\* register: stream 1 is selected again and bit 12 is still set.
AudioRegisterAboveStreams ==
  /\ Opened(ret) /\ Len(ret.stn.audio) = 3
  /\ \E n \in 1..3 : bd.regs.PSR_PRIMARY_AUDIO_ID = Bits(n) \cup {12}

\* C34 as stated: after the clip has been opened, with audio streams
\* PSR_PRIMARY_AUDIO_ID is within 1..num_audio.
AudioRegisterInRange ==
  (Opened(ret) /\ ret.stn.audio # <<>>)
    => InStreams(bd.regs.PSR_PRIMARY_AUDIO_ID, Len(ret.stn.audio))

----------------------------------------------------------------------------
(* Menu and popup announcements *)

MaxAnnounced == 3

GcRunStatuses == SUBSET {"GC_STATUS_MENU_OPEN", "GC_STATUS_POPUP"}
                   \cup { {"GC_STATUS_ANIMATE"} }

GcMsgs == {"GC_CTRL_NOP", "GC_CTRL_VK_KEY"}

StatusBit(event) ==
  IF event = "BD_EVENT_MENU" THEN "GC_STATUS_MENU_OPEN" ELSE "GC_STATUS_POPUP"

\* The parameters of the events of one kind that an operation queued.
ParamsOf(q, event) ==
  LET sel == SelectSeq(q, LAMBDA e : e.event = event)
  IN  [i \in 1..Len(sel) |-> sel[i].param]

\* What was announced last (0 before the first announcement: the first
\* one has to be 1), and how many announcements were made.
Announced(h, q) ==
  LET m == ParamsOf(q, "BD_EVENT_MENU")
      p == ParamsOf(q, "BD_EVENT_POPUP")
  IN  [h EXCEPT !.menu = IF m = <<>> THEN @ ELSE m[Len(m)],
                !.popup = IF p = <<>> THEN @ ELSE p[Len(p)],
                !.menus = IF @ + Len(m) > MaxAnnounced THEN MaxAnnounced
                          ELSE @ + Len(m)]

GcRet(op, val) == [op |-> op, val |-> val]

InitGc ==
  /\ bd = InitBd
  /\ ret = GcRet("init", 0)
  /\ hist = [menu |-> 0, popup |-> 0, menus |-> 0] @@ InitHist

\* bd_play creates or frees the VM.
GcPlay ==
  \E io \in TitleIos :
    LET r == bd_play(Enter(bd), io) IN
      /\ bd' = r.b
      /\ ret' = GcRet("play", r.ret)
      /\ hist' = Announced(hist, r.b.queued)

\* One run of the graphics controller, for any of its callers.
GcRun ==
  \E msg \in GcMsgs, status \in GcRunStatuses, n \in {0, 1} :
    LET r == _run_gc(Enter(bd), msg, Cmds(status, n, TRUE)) IN
      /\ bd' = r.b
      /\ ret' = GcRet("run_gc", r.ret)
      /\ hist' = Announced(hist, r.b.queued)

GcRegisterOverlay ==
  \E func \in BOOLEAN :
    /\ bd' = bd_register_overlay_proc(Enter(bd), func)
    /\ ret' = GcRet("register", 0)
    /\ hist' = Announced(hist, bd'.queued)

GcGetEvent ==
  LET r == bd_get_event(Enter(bd)) IN
    /\ bd' = r.b
    /\ ret' = GcRet("get_event", r.ret)
    /\ hist' = Announced(hist, r.b.queued)

NextGc == GcPlay \/ GcRun \/ GcRegisterOverlay \/ GcGetEvent

SpecGc == InitGc /\ [][NextGc]_vars

Opposite(last) == IF last = 1 THEN 0 ELSE 1

\* The events of one kind alternate, the first one being 1, and one is
\* queued exactly when its status bit changes.
Alternates(event, last, b, b2) ==
  LET ps == ParamsOf(b2.queued, event)
      bit == StatusBit(event)
  IN  /\ Len(ps) <= 1
      /\ ps # <<>> <=> ((bit \in b.gc_status) # (bit \in b2.gc_status))
      /\ ps # <<>> =>
            /\ ps[1] = Opposite(last)
            /\ ps[1] = (IF bit \in b2.gc_status THEN 1 ELSE 0)

\* C35: over any sequence of graphics-controller runs, overlay
\* registrations and VM changes, the BD_EVENT_MENU events that _run_gc
\* queues alternate between 1 and 0, the first one being 1, and so do the
\* BD_EVENT_POPUP events; an event is queued only in a step in which its
\* status bit changes.
MenuEventsAlternate ==
  [][ /\ Alternates("BD_EVENT_MENU", hist.menu, bd, bd')
      /\ Alternates("BD_EVENT_POPUP", hist.popup, bd, bd')
    ]_vars

\* The menu was announced open, closed by a run without a graphics
\* controller or VM, and is announced open again.
MenuOpenedAgain ==
  /\ ret.op = "run_gc"
  /\ hist.menus = MaxAnnounced /\ hist.menu = 1
  /\ Ev("BD_EVENT_MENU", 1) \in { bd.queued[i] : i \in DOMAIN bd.queued }

----------------------------------------------------------------------------
(* Seeks with a target outside the title *)

\* Byte positions in the title, at its end and far behind it.
RangePositions ==
  { U64(0), U64(40 * PktLen + 1), U64(TitlePackets * PktLen - 1),
    U64(TitlePackets * PktLen), <<0, 1, 0, 0>>, <<Limb - 1, 0, 0, 0>> }

RangeMarks == {0, 1, 2}

RangeItems == {0, 1, 2, 3}

RangeIo == OpenIo(1, "ok", EMPTY_UO_MASK, EMPTY_UO_MASK)

RangeRet(op, val, arg) == [op |-> op, val |-> val, arg |-> arg]

InitRange ==
  /\ bd = [ title_angle |-> 0, angle_change_pkt |-> 0,
            angle_change_time |-> 0, request_angle |-> 0,
            seamless_angle_change |-> 0, psr_written |-> <<>>,
            mutex_depth |-> 0, depths |-> <<>>, calls |-> <<>> ] @@ InitBd
  /\ ret = RangeRet("init", 0, 0)
  /\ hist = InitHist

EnterRange(b) == [EnterEvent(b) EXCEPT !.psr_written = <<>>]

RangeOpenPlaylist ==
  /\ ~bd.title
  /\ \E o \in {"ok", "no_fp"} :
       LET r == _open_playlist(EnterRange(bd),
                               OpenIo(1, o, EMPTY_UO_MASK, EMPTY_UO_MASK))
       IN
       /\ bd' = [r.b EXCEPT !.title_angle = 0, !.s_pos = 0]
       /\ ret' = RangeRet("open", r.ret, 0)
  /\ UNCHANGED hist

RangeClosePlaylist ==
  /\ bd.title
  /\ bd' = _close_playlist(EnterRange(bd), FALSE)
  /\ ret' = RangeRet("close", 0, 0)
  /\ UNCHANGED hist

RangeSeamlessAngleChange ==
  /\ bd.st0.clip # NoClip
  /\ \E angle \in Angles :
       /\ bd' = bd_seamless_angle_change(EnterRange(bd), angle)
       /\ ret' = RangeRet("seamless", 0, angle)
  /\ UNCHANGED hist

RangeSeek ==
  \E pos \in RangePositions :
    /\ bd' = bd_seek(EnterRange(bd), pos, RangeIo)
    /\ ret' = RangeRet("seek", bd'.s_pos, pos)
    /\ UNCHANGED hist

RangeSeekMark ==
  \E mark \in RangeMarks :
    /\ bd' = bd_seek_mark(EnterRange(bd), mark, RangeIo)
    /\ ret' = RangeRet("seek_mark", bd'.s_pos, mark)
    /\ UNCHANGED hist

RangeSeekPlayitem ==
  \E clip_ref \in RangeItems :
    /\ bd' = bd_seek_playitem(EnterRange(bd), clip_ref, RangeIo)
    /\ ret' = RangeRet("seek_playitem", bd'.s_pos, clip_ref)
    /\ UNCHANGED hist

NextRange ==
  \/ RangeOpenPlaylist \/ RangeClosePlaylist \/ RangeSeamlessAngleChange
  \/ RangeSeek \/ RangeSeekMark \/ RangeSeekPlayitem

SpecRange == InitRange /\ [][NextRange]_vars

\* The target of the seek is in the title: the title has one mark.
InTitle(r) ==
  CASE r.op = "seek" -> Less(r.arg, MulSmall(U64(TitlePackets), PktLen))
    [] r.op = "seek_mark" -> r.arg < 1
    [] r.op = "seek_playitem" -> r.arg < Len(ClipTable)
    [] OTHER -> TRUE

IsSeek(r) == r.op \in {"seek", "seek_mark", "seek_playitem"}

\* C36: a seek whose target is outside the title, or that is made with no
\* title open, executes no pending angle change, leaves the stream, the
\* open clip and the title position as they were and returns the
\* position.
RefusedSeekChangesNothing ==
  [][ (IsSeek(ret') /\ (~bd.title \/ ~InTitle(ret'))) =>
        /\ bd'.seamless_angle_change = bd.seamless_angle_change
        /\ bd'.request_angle = bd.request_angle
        /\ bd'.angle_change_pkt = bd.angle_change_pkt
        /\ bd'.title_angle = bd.title_angle
        /\ bd'.psr_written = <<>>
        /\ bd'.st0 = bd.st0
        /\ bd'.s_pos = bd.s_pos
        /\ bd'.title = bd.title
        /\ bd'.queued = <<>>
        /\ bd'.mutex_depth = bd.mutex_depth
        /\ ret'.val = bd.s_pos ]_vars

\* A mark the title does not have was asked for while an angle change was
\* pending, behind the start of the title.
RefusedWithPendingAngle ==
  /\ ret.op = "seek_mark" /\ ~InTitle(ret)
  /\ bd.title /\ bd.seamless_angle_change = 1
  /\ bd.request_angle # bd.title_angle
  /\ bd.s_pos > 0 /\ ret.val = bd.s_pos

----------------------------------------------------------------------------
(* Key strokes *)

\* The flags that are or'd with the key code.
BD_VK_FLAGS_MASK == {"BD_VK_KEY_PRESSED", "BD_VK_KEY_TYPED",
                     "BD_VK_KEY_RELEASED"}

BD_VK_FLAGS(flags) == flags \cap BD_VK_FLAGS_MASK

\* Faulty variant of BD_KEY_TYPED: the key is triggered unless it is
\* released.
BD_KEY_TYPED_unreleased(flags) == flags \cap {"BD_VK_KEY_RELEASED"} = {}

\* HDMV: the key is triggered when pressed down.
BD_KEY_TYPED(flags) ==
  flags \cap {"BD_VK_KEY_TYPED", "BD_VK_KEY_RELEASED"} = {}

\* The key as bd_user_input looks at it.
VkKey(code, flags) ==
  [code |-> code, typed |-> BD_KEY_TYPED(flags),
   flags |-> BD_VK_FLAGS(flags) # {}]

KeyCodes == {"BD_VK_ROOT_MENU", "BD_VK_ENTER"}

KeyPts == {-1, 30}

\* gc_run takes the key and reports a change of the selection.
KeyCmds == [NoCmds EXCEPT !.result = 1]

\* What the index says of the top menu.
KeyIos ==
  { PlayerIo(TRUE, FALSE, FALSE, TRUE, FALSE),
    PlayerIo(TRUE, TRUE, TRUE, FALSE, FALSE),
    NoIo }

KeyRet(op, val, code, h, now) ==
  [ op |-> op, val |-> val, code |-> code, runs |-> h.runs,
    menus |-> h.menus, hdmv |-> h.hdmv, now |-> now,
    done |-> h.phase = "idle" ]

NoStroke == [phase |-> "idle", runs |-> 0, menus |-> 0, hdmv |-> TRUE]

\* An HDMV title plays; no overlay callback is registered yet.
InitKey ==
  /\ bd = [psr_written |-> <<>>, vm_suspend_pl |-> 0, app_scr |-> FALSE]
            @@ [InitBd EXCEPT !.title_type = "title_hdmv",
                              !.hdmv_vm = TRUE]
  /\ ret = KeyRet("init", 0, "none", NoStroke, FALSE)
  /\ hist = [code |-> "none"] @@ NoStroke @@ InitHist

\* The stroke after one of its events: a call of _run_gc returns the
\* result of gc_run or -1 and an event that is not passed on returns 0; a
\* menu call of an HDMV title suspends the VM.
Stroke(h, first, phase, code, b, r) ==
  [h EXCEPT !.phase = phase,
            !.code = code,
            !.runs = (IF first THEN 0 ELSE @)
                       + (IF code # "BD_VK_ROOT_MENU" /\ r.ret # 0
                          THEN 1 ELSE 0),
            !.menus = (IF first THEN 0 ELSE @) + r.b.vm_suspend_pl,
            !.hdmv = (first \/ @) /\ b.title_type = "title_hdmv"]

KeyOpenPlaylist ==
  /\ hist.phase = "idle"
  /\ \E ok \in BOOLEAN :
       LET r == _open_playlist(EnterTitle(bd),
                  [OpenIo(1, "ok", EMPTY_UO_MASK, EMPTY_UO_MASK) EXCEPT
                     !.pl_ok = ok])
       IN
       /\ bd' = r.b
       /\ ret' = KeyRet("open_playlist", r.ret, "none", NoStroke, FALSE)
  /\ UNCHANGED hist

KeyRegisterOverlay ==
  /\ hist.phase = "idle"
  /\ \E func \in BOOLEAN :
       /\ bd' = bd_register_overlay_proc(EnterTitle(bd), func)
       /\ ret' = KeyRet("register", 0, "none", NoStroke, FALSE)
  /\ UNCHANGED hist

KeyPlay ==
  /\ hist.phase = "idle"
  /\ \E io \in KeyIos :
       LET r == bd_play(EnterTitle(bd), io) IN
       /\ bd' = r.b
       /\ ret' = KeyRet("play", r.ret, "none", NoStroke, FALSE)
  /\ UNCHANGED hist

\* The key stroke is reported by one event without flags.
KeySingle ==
  /\ hist.phase = "idle"
  /\ \E code \in KeyCodes, pts \in KeyPts, io \in KeyIos :
       LET r == bd_user_input(EnterTitle(bd), pts, VkKey(code, {}), 15, io,
                              KeyCmds)
       IN
       /\ bd' = r.b
       /\ hist' = Stroke(hist, TRUE, "idle", code, bd, r)
       /\ ret' = KeyRet("single", r.ret, code, hist',
                        bd.title_type = "title_hdmv")

KeyPressed ==
  /\ hist.phase = "idle"
  /\ \E code \in KeyCodes, pts \in KeyPts, io \in KeyIos :
       LET r == bd_user_input(EnterTitle(bd), pts,
                              VkKey(code, {"BD_VK_KEY_PRESSED"}), 15, io,
                              KeyCmds)
       IN
       /\ bd' = r.b
       /\ hist' = Stroke(hist, TRUE, "pressed", code, bd, r)
       /\ ret' = KeyRet("pressed", r.ret, code, hist',
                        bd.title_type = "title_hdmv")

KeyTyped ==
  /\ hist.phase = "pressed"
  /\ \E pts \in KeyPts, io \in KeyIos :
       LET r == bd_user_input(EnterTitle(bd), pts,
                              VkKey(hist.code, {"BD_VK_KEY_TYPED"}), 15, io,
                              KeyCmds)
       IN
       /\ bd' = r.b
       /\ hist' = Stroke(hist, FALSE, "typed", hist.code, bd, r)
       /\ ret' = KeyRet("typed", r.ret, hist.code, hist',
                        bd.title_type = "title_hdmv")

KeyReleased ==
  /\ hist.phase = "typed"
  /\ \E pts \in KeyPts, io \in KeyIos :
       LET r == bd_user_input(EnterTitle(bd), pts,
                              VkKey(hist.code, {"BD_VK_KEY_RELEASED"}), 15,
                              io, KeyCmds)
       IN
       /\ bd' = r.b
       /\ hist' = Stroke(hist, FALSE, "idle", hist.code, bd, r)
       /\ ret' = KeyRet("released", r.ret, hist.code, hist',
                        bd.title_type = "title_hdmv")

NextKey ==
  \/ KeyOpenPlaylist \/ KeyRegisterOverlay \/ KeyPlay
  \/ KeySingle \/ KeyPressed \/ KeyTyped \/ KeyReleased

SpecKey == InitKey /\ [][NextKey]_vars

IsKeyEvent(r) == r.op \in {"single", "pressed", "typed", "released"}

AfterPress(r) == r.op \in {"typed", "released"}

\* C37 (as amended): in an HDMV title a key stroke, reported by one event
\* without flags or by the events PRESSED, TYPED and RELEASED, is passed
\* to _run_gc exactly once; a TYPED or RELEASED event returns 0, is not
\* passed to _run_gc and calls no menu; the root menu key is never passed
\* to _run_gc and calls the menu on the flag-less or PRESSED event only.
KeyStrokePassedOnce ==
  /\ (IsKeyEvent(ret) /\ ret.done /\ ret.hdmv
        /\ ret.code # "BD_VK_ROOT_MENU")
       => ret.runs = 1 /\ ret.menus = 0
  /\ (AfterPress(ret) /\ ret.now)
       => /\ ret.val = 0
          /\ bd.queued = <<>>
          /\ bd.vm_suspend_pl = 0
          /\ SelectSeq(bd.psr_written, IsTitleNumberWrite) = <<>>
  /\ (IsKeyEvent(ret) /\ ret.hdmv /\ ret.code = "BD_VK_ROOT_MENU")
       => ret.runs = 0 /\ ret.menus <= 1

\* The three events of a stroke of the enter key were given to an HDMV
\* title with a graphics controller; the controller took one of them.
StrokeOfThreeEvents ==
  /\ ret.op = "released" /\ ret.hdmv /\ ret.code = "BD_VK_ENTER"
  /\ bd.graphics_controller /\ ret.runs = 1

\* C37 as stated: a TYPED or RELEASED event returns 0 without any action.
AfterPressNoAction ==
  (AfterPress(ret) /\ ret.now)
    => /\ ret.val = 0
       /\ bd.queued = <<>>
       /\ bd.vm_suspend_pl = 0
       /\ bd.psr_written = <<>>

----------------------------------------------------------------------------
(* The PID of the PG stream *)

\* _open_m2ts of the main path with the PG stream it selects.
_open_m2ts_pg(o) ==
  IF o.ret = 1 THEN [b |-> _init_pg_stream(o.b), ret |-> 1] ELSE o

PgEntry(pid, stream_type, subpath_id) ==
  [pid |-> pid, stream_type |-> stream_type, subpath_id |-> subpath_id]

\* Play items without PG streams, and with a stream of the main path
\* followed by one of a sub path.
PgStns ==
  { [stn |-> NoStreams, pg |-> <<>>],
    [stn |-> [audio |-> <<2, 1, 1>>, pg |-> <<2, 1>>, num_ig |-> 0],
     pg |-> <<PgEntry(18, 1, 0), PgEntry(19, 2, 0)>>] }

PgRegValues == { {}, Bits(1), Bits(2), Bits(1) \cup {31} }

PgRet(op, val) == [op |-> op, val |-> val]

\* No playlist is open; the event queue exists and the callback is
\* registered.
InitPg ==
  /\ bd = [ stn_pg |-> <<>> ]
            @@ [EventBd([ PSR_PRIMARY_AUDIO_ID |-> Bits(1),
                          PSR_PG_STREAM |-> Bits(1),
                          PSR_IG_STREAM_ID |-> Bits(1),
                          PSR_AUDIO_LANG |-> Word,
                          PSR_PG_AND_SUB_LANG |-> Word,
                          PSR_PLAYITEM |-> {}, PSR_TIME |-> {} ])
                  EXCEPT !.st0 = [pg_pid |-> 0] @@ @]
  /\ ret = PgRet("init", 0)
  /\ hist = InitHist

PgSetDecodePg ==
  \E value \in {{}, {0}} :
    /\ bd' = bd_set_decode_pg(EnterEvent(bd), value)
    /\ ret' = PgRet("set_decode_pg", 1)
    /\ UNCHANGED hist

PgRegisterOverlay ==
  \E func \in BOOLEAN :
    /\ bd' = bd_register_overlay_proc(EnterEvent(bd), func)
    /\ ret' = PgRet("register", 0)
    /\ UNCHANGED hist

\* A write of PSR_PG_STREAM by the VM or the BD-J side.
PgWriteStream ==
  \E val \in PgRegValues :
    /\ bd' = bd_psr_write_cb(EnterEvent(bd), "PSR_PG_STREAM", val)
    /\ ret' = PgRet("write", 0)
    /\ UNCHANGED hist

PgOpenClip ==
  \E clip \in ClipIds, s \in PgStns, o \in {"ok", "no_fp"} :
    LET r == _open_m2ts_pg(
               _open_m2ts_psrs(
                 _open_m2ts([EnterEvent(bd) EXCEPT !.title = TRUE,
                                                   !.st0.clip = clip,
                                                   !.stn_pg = s.pg],
                            "st0",
                            OpenIo(clip, o, EMPTY_UO_MASK, EMPTY_UO_MASK)),
                 s.stn))
    IN /\ bd' = r.b
       /\ ret' = PgRet("open", r.ret)
       /\ UNCHANGED hist

PgGetEvent ==
  /\ bd.event_queue.ev # <<>>
  /\ LET r == bd_get_event(EnterEvent(bd)) IN
       /\ bd' = r.b
       /\ ret' = PgRet("get_event", r.ret)
  /\ UNCHANGED hist

NextPg ==
  \/ PgSetDecodePg \/ PgRegisterOverlay \/ PgWriteStream \/ PgOpenClip
  \/ PgGetEvent

SpecPg == InitPg /\ [][NextPg]_vars

\* _init_pg_stream was run by the operation.
PgInitRun(b) == \E i \in DOMAIN b.calls : b.calls[i].fn = "_init_pg_stream"

\* PSR_PG_STREAM selects a stream of the main path of the play item.
MainPathSelected(b) ==
  LET n == BitsValue(b.regs.PSR_PG_STREAM \cap 0..11) IN
  /\ n \in 1..Len(b.stn_pg)
  /\ b.stn_pg[n].stream_type # 2
  /\ b.st0.pg_pid = b.stn_pg[n].pid

PgDecoded(b) ==
  /\ b.graphics_controller
  /\ b.decode_pg
  /\ b.title
  /\ MainPathSelected(b)

\* C38 (as amended): after an operation that has run _init_pg_stream (an
\* open of the main-path clip, a change of PSR_PG_STREAM with a clip
\* open), a PID other than 0 in st0.pg_pid means that a graphics
\* controller is registered, PG decoding is enabled, a title is open and
\* PSR_PG_STREAM selects a main-path stream of the play item, whose PID
\* it is; every other operation leaves st0.pg_pid as it is.
PgPidSetByInit ==
  [][ /\ (PgInitRun(bd') /\ bd'.st0.pg_pid # 0) => PgDecoded(bd')
      /\ ~PgInitRun(bd') => bd'.st0.pg_pid = bd.st0.pg_pid
    ]_vars

\* The clip was opened and the PID of its first PG stream is stored.
PgPidStored ==
  /\ ret.op = "open" /\ ret.val = 1
  /\ bd.st0.pg_pid = 18 /\ PgDecoded(bd)

\* C38 as stated: in every state, a PID other than 0 in st0.pg_pid means
\* that a graphics controller is registered, PG decoding is enabled, a
\* title is open and PSR_PG_STREAM selects a main-path stream of the play
\* item.
PgPidMeansDecoding ==
  bd.st0.pg_pid # 0 => PgDecoded(bd)

----------------------------------------------------------------------------
(* The angle register *)

\* The write of PSR_ANGLE_NUMBER in _update_playlist_psrs.
_update_playlist_psrs_angle(b) ==
  bd_psr_write(b, "PSR_ANGLE_NUMBER", b.title_angle + 1)

\* The playlist registers are written when the playlist has been parsed.
_open_playlist_angle(o) ==
  IF o.b.title
  THEN [b |-> _update_playlist_psrs_angle([o.b EXCEPT !.title_angle = 0,
                                                      !.s_pos = 0]),
        ret |-> o.ret]
  ELSE o

\* The value of PSR_ANGLE_NUMBER after the writes of an operation.
AngleNumber(h, b) ==
  LET w == SelectSeq(b.psr_written,
                     LAMBDA x : x.reg = "PSR_ANGLE_NUMBER")
  IN  IF w = <<>> THEN h
      ELSE [h EXCEPT !.angle_number = w[Len(w)].val]

AngleIos ==
  { [OpenIo(1, o, EMPTY_UO_MASK, EMPTY_UO_MASK) EXCEPT !.pl_ok = ok] :
      o \in {"ok", "no_fp"}, ok \in BOOLEAN }

InitAnglePsr ==
  /\ bd = [ title_angle |-> 0, angle_change_pkt |-> 0,
            angle_change_time |-> 0, request_angle |-> 0,
            seamless_angle_change |-> 0, psr_written |-> <<>>,
            mutex_depth |-> 0, depths |-> <<>>, calls |-> <<>> ] @@ InitBd
  /\ ret = [op |-> "init", val |-> 0, angle |-> 0]
  /\ hist = [angle_number |-> 1] @@ InitHist

AnglePsrOpenPlaylist ==
  \E io \in AngleIos :
    LET r == _open_playlist_angle(_open_playlist(EnterRange(bd), io)) IN
    /\ bd' = r.b
    /\ ret' = [op |-> "open", val |-> r.ret, angle |-> 0]
    /\ hist' = AngleNumber(hist, r.b)

AnglePsrClosePlaylist ==
  /\ bd.title
  /\ bd' = _close_playlist(EnterRange(bd), FALSE)
  /\ ret' = [op |-> "close", val |-> 0, angle |-> 0]
  /\ hist' = hist

AnglePsrSelect ==
  \E angle \in Angles \cup {2}, o \in {"ok", "no_fp"} :
    LET r == bd_select_angle(EnterRange(bd), angle,
                             OpenIo(1, o, EMPTY_UO_MASK, EMPTY_UO_MASK))
    IN
    /\ bd' = r.b
    /\ ret' = [op |-> "select_angle", val |-> r.ret, angle |-> angle]
    /\ hist' = AngleNumber(hist, r.b)

AnglePsrSeamless ==
  /\ bd.st0.clip # NoClip
  /\ \E angle \in Angles :
       /\ bd' = bd_seamless_angle_change(EnterRange(bd), angle)
       /\ ret' = [op |-> "seamless", val |-> 0, angle |-> angle]
  /\ hist' = hist

\* A seek executes the pending change.
AnglePsrSeekPlayitem ==
  \E clip_ref \in {0, 1}, o \in {"ok", "no_fp"} :
    /\ bd' = bd_seek_playitem(EnterRange(bd), clip_ref,
                              OpenIo(1, o, EMPTY_UO_MASK, EMPTY_UO_MASK))
    /\ ret' = [op |-> "seek_playitem", val |-> bd'.s_pos, angle |-> 0]
    /\ hist' = AngleNumber(hist, bd')

NextAnglePsr ==
  \/ AnglePsrOpenPlaylist \/ AnglePsrClosePlaylist \/ AnglePsrSelect
  \/ AnglePsrSeamless \/ AnglePsrSeekPlayitem

SpecAnglePsr == InitAnglePsr /\ [][NextAnglePsr]_vars

----------------------------------------------------------------------------
(* The end of the playlist in a BD-J title *)

EndOfPlaylist == Ev("BDJ_EVENT_END_OF_PLAYLIST", 0)

\* Bytes asked of one read: none (the events are polled), a part of a
\* unit, a unit.
EopReadLens == {0, UnitLen \div 2, UnitLen}

\* A BD-J title runs; the event queue exists.
InitEop ==
  /\ bd = [InitBd EXCEPT !.title_type = "title_bdj",
                         !.event_queue.alloc = TRUE]
  /\ ret = Idle("init", 0)
  /\ hist = [sent |-> 0] @@ InitHist

\* The notifications since end_of_playlist became 1.
EopSent(h, b, b2) ==
  [h EXCEPT !.sent = (IF b2.end_of_playlist = 1 /\ b.end_of_playlist # 1
                      THEN 0 ELSE @)
                       + Count(b2.bdj_sent, EndOfPlaylist)]

\* The BD-J side selects a playlist: the open clears end_of_playlist.
EopSelectPlaylist ==
  /\ ret.pc = "idle"
  /\ \E o \in {"ok", "no_fp"} :
       LET r == _open_playlist(Enter(bd),
                               OpenIo(1, o, EMPTY_UO_MASK, EMPTY_UO_MASK))
       IN
       /\ bd' = [r.b EXCEPT !.end_of_playlist = 0]
       /\ ret' = Idle("select_playlist", r.ret)
       /\ hist' = EopSent(hist, bd, bd')

EopGetEvent ==
  /\ ret.pc = "idle"
  /\ LET r == bd_get_event(Enter(bd)) IN
       /\ bd' = r.b
       /\ ret' = [event |-> r.ev] @@ Idle("get_event", r.ret)
       /\ hist' = EopSent(hist, bd, bd')

EopReadBegin ==
  /\ ret.pc = "idle"
  /\ \E len \in EopReadLens :
       /\ Returns(_read_ext_begin(Enter(bd), len))
       /\ hist' = EopSent(hist, bd, bd')

EopReadTail ==
  /\ ret.pc = "tail"
  /\ Returns(_read_ext_tail(bd, ret, [cmds |-> NoCmds, running |-> FALSE]))
  /\ hist' = EopSent(hist, bd, bd')

NextEop ==
  EopSelectPlaylist \/ EopGetEvent \/ EopReadBegin \/ EopReadTail

SpecEop == InitEop /\ [][NextEop]_vars

\* C40: in a BD-J title the end of the playlist is reported to the BD-J
\* side by the bd_read_ext call that asks for bytes, finds no event waiting
\* and finds end_of_playlist at 1; the call leaves end_of_playlist at 3;
\* no other step reports it, and it is reported at most once for each
\* time end_of_playlist became 1.
EndOfPlaylistSentOnce ==
  [][ /\ Count(bd'.bdj_sent, EndOfPlaylist)
           = (IF /\ ret.pc = "tail"
                 /\ ret.len >= 1
                 /\ bd.end_of_playlist = 1
              THEN 1 ELSE 0)
      /\ Count(bd'.bdj_sent, EndOfPlaylist) = 1
           => bd'.end_of_playlist = 3
      /\ (ret.pc = "idle" /\ ret'.op = "read_ext"
            /\ bd.event_queue.ev # <<>>)
           => ret'.pc = "idle"
      /\ hist'.sent <= 1
    ]_vars

\* The end of the playlist has been reported and a later read has found
\* end_of_playlist at 3.
EndOfPlaylistReadAgain ==
  /\ ret.op = "read_ext" /\ ret.pc = "idle" /\ ret.len >= 1
  /\ ~ret.pending
  /\ bd.end_of_playlist = 3 /\ bd.bdj_sent = <<>>
  /\ hist.sent = 1

====
